---- MODULE Spec2Model ----
(***************************************************************************)
(* The PDF content-stream interpreter of src-tauri: TransformMatrix        *)
(* (models.rs), GraphicsState (graphics_state.rs), the path transform      *)
(* (path_ops.rs), the text record (text_ops.rs) and ParseContext with its  *)
(* operator dispatcher and to_layer_objects (content_parser.rs).           *)
(*                                                                         *)
(* Numbers.  The code computes in f32.  The model computes in the integers *)
(* and draws every operand from small integers, where f32 arithmetic is    *)
(* exact (every intermediate value is an integer of magnitude < 2^24), so  *)
(* on the modelled inputs the model's values are the code's values.  The   *)
(* numbers of a text record, which the code scales by 0.8, 1.15 and the    *)
(* width factors, are kept in thousandths.  Rounding, infinities and NaN   *)
(* are outside the model.                                                  *)
(***************************************************************************)
EXTENDS Integers, Sequences, FiniteSets, TLC

VARIABLES
    ctx,        \* the ParseContext of the page being interpreted
    history,    \* the operations consumed so far, each with the context it was dispatched on
    mat,        \* the inputs and result of one TransformMatrix computation
    layers,     \* the LayerObjects made of the page's output lists, None until they are made
    pages       \* the page interpretations of a pool of workers, one record per page

vars == <<ctx, history, mat, layers, pages>>

(***************************************************************************)
(* Option<T>: None is the empty sequence, Some(v) the one-element sequence *)
(***************************************************************************)
None == <<>>

Some(v) == <<v>>

is_some(o) == Len(o) = 1

unwrap_or(o, dflt) == IF Len(o) = 1 THEN o[1] ELSE dflt

\* f32::min and f32::max on finite values
f32_min(a, b) == IF b < a THEN b ELSE a

f32_max(a, b) == IF b > a THEN b ELSE a

\* f32::MAX stands above, and f32::MIN below, every coordinate of the model
F32_MAX == 1000000000

F32_MIN == -F32_MAX

(***************************************************************************)
(* lopdf::Object, the operand type                                         *)
(***************************************************************************)
Integer(i) == [kind |-> "Integer", val |-> i]

Real(f) == [kind |-> "Real", val |-> f]

Name(s) == [kind |-> "Name", val |-> s]

String(s) == [kind |-> "String", val |-> s]

Array(items) == [kind |-> "Array", val |-> items]

(***************************************************************************)
(* Strings.  A String or Name object holds a sequence of bytes (0..255); a *)
(* Rust String is the sequence of its chars, each char its code point.     *)
(***************************************************************************)
is_continuation(b) == b >= 128 /\ b <= 191

\* the length of the UTF-8 sequence a byte announces, 0 for a byte that cannot lead
utf8_char_width(b) ==
    IF b < 128 THEN 1
    ELSE IF b >= 194 /\ b <= 223 THEN 2
    ELSE IF b >= 224 /\ b <= 239 THEN 3
    ELSE IF b >= 240 /\ b <= 244 THEN 4
    ELSE 0

\* the second byte of a sequence: narrower after E0, ED, F0 and F4 (no overlong form,
\* no surrogate, nothing above U+10FFFF)
second_byte_ok(lead, b) ==
    CASE lead = 224 -> b >= 160 /\ b <= 191
      [] lead = 237 -> b >= 128 /\ b <= 159
      [] lead = 240 -> b >= 144 /\ b <= 191
      [] lead = 244 -> b >= 128 /\ b <= 143
      [] OTHER      -> is_continuation(b)

\* the sequence starting at bytes[i]: whether it is well formed, and the number of bytes
\* of it that are (the maximal well-formed prefix, at least the first byte)
utf8_sequence(bytes, i, w) ==
    IF w = 0 THEN [valid |-> FALSE, len |-> 1]
    ELSE IF w = 1 THEN [valid |-> TRUE, len |-> 1]
    ELSE IF i + 1 > Len(bytes) \/ ~second_byte_ok(bytes[i], bytes[i + 1])
         THEN [valid |-> FALSE, len |-> 1]
    ELSE IF w = 2 THEN [valid |-> TRUE, len |-> 2]
    ELSE IF i + 2 > Len(bytes) \/ ~is_continuation(bytes[i + 2])
         THEN [valid |-> FALSE, len |-> 2]
    ELSE IF w = 3 THEN [valid |-> TRUE, len |-> 3]
    ELSE IF i + 3 > Len(bytes) \/ ~is_continuation(bytes[i + 3])
         THEN [valid |-> FALSE, len |-> 3]
    ELSE [valid |-> TRUE, len |-> 4]

\* the code point of the well-formed sequence of w bytes at bytes[i]
utf8_code_point(bytes, i, w) ==
    CASE w = 1 -> bytes[i]
      [] w = 2 -> (bytes[i] - 192) * 64 + (bytes[i + 1] - 128)
      [] w = 3 -> (bytes[i] - 224) * 4096 + (bytes[i + 1] - 128) * 64 + (bytes[i + 2] - 128)
      [] OTHER -> (bytes[i] - 240) * 262144 + (bytes[i + 1] - 128) * 4096
                      + (bytes[i + 2] - 128) * 64 + (bytes[i + 3] - 128)

\* U+FFFD REPLACEMENT CHARACTER
REPLACEMENT_CHARACTER == 65533

\* One pass over the bytes from position i.  Strict: None at the first ill-formed
\* sequence.  Lossy: one U+FFFD for each maximal ill-formed run, then on.
RECURSIVE utf8_decode(_, _, _, _)
utf8_step(bytes, i, lossy, done, q) ==
    IF q.valid
    THEN utf8_decode(bytes, i + q.len, lossy, Append(done, utf8_code_point(bytes, i, q.len)))
    ELSE IF lossy
         THEN utf8_decode(bytes, i + q.len, lossy, Append(done, REPLACEMENT_CHARACTER))
         ELSE None

utf8_decode(bytes, i, lossy, done) ==
    IF i > Len(bytes)
    THEN Some(done)
    ELSE utf8_step(bytes, i, lossy, done, utf8_sequence(bytes, i, utf8_char_width(bytes[i])))

\* std::str::from_utf8: Ok(s) is Some(s), Err is None
from_utf8(bytes) == utf8_decode(bytes, 1, FALSE, <<>>)

\* String::from_utf8_lossy
from_utf8_lossy(bytes) == utf8_decode(bytes, 1, TRUE, <<>>)[1]

is_leading_surrogate(u) == u >= 55296 /\ u <= 56319

is_trailing_surrogate(u) == u >= 56320 /\ u <= 57343

\* String::from_utf16(..).ok(): a surrogate pair is one char, a lone surrogate an error
RECURSIVE from_utf16(_, _, _)
from_utf16(units, i, done) ==
    IF i > Len(units) THEN Some(done)
    ELSE IF ~is_leading_surrogate(units[i]) /\ ~is_trailing_surrogate(units[i])
         THEN from_utf16(units, i + 1, Append(done, units[i]))
    ELSE IF /\ is_leading_surrogate(units[i])
            /\ i + 1 <= Len(units)
            /\ is_trailing_surrogate(units[i + 1])
         THEN from_utf16(units, i + 2,
                  Append(done, 65536 + (units[i] - 55296) * 1024 + (units[i + 1] - 56320)))
    ELSE None

\* bytes.chunks_exact(2).map(u16::from_be_bytes)
u16_chars(bytes) == [n \in 1..(Len(bytes) \div 2) |-> bytes[2 * n - 1] * 256 + bytes[2 * n]]

decode_utf16be(bytes) ==
    IF Len(bytes) % 2 # 0 THEN None ELSE from_utf16(u16_chars(bytes), 1, <<>>)

\* char::is_whitespace: the code points with the White_Space property
is_whitespace(ch) ==
    \/ ch >= 9 /\ ch <= 13
    \/ ch \in {32, 133, 160, 5760, 8232, 8233, 8239, 8287, 12288}
    \/ ch >= 8192 /\ ch <= 8202

\* text.trim().is_empty()
trim_is_empty(text) == \A i \in 1..Len(text) : is_whitespace(text[i])

\* str::to_lowercase on the ASCII letters; other letters are outside the model
to_lowercase(text) ==
    [i \in 1..Len(text) |-> IF text[i] >= 65 /\ text[i] <= 90 THEN text[i] + 32 ELSE text[i]]

\* str::contains(pattern)
contains(text, pattern) ==
    \E i \in 0..(Len(text) - Len(pattern)) : SubSeq(text, i + 1, i + Len(pattern)) = pattern

\* the string literals of text_ops.rs
str_courier == <<99, 111, 117, 114, 105, 101, 114>>

str_mono == <<109, 111, 110, 111>>

str_times == <<116, 105, 109, 101, 115>>

str_Helvetica == <<72, 101, 108, 118, 101, 116, 105, 99, 97>>

(***************************************************************************)
(* models.rs: TransformMatrix                                              *)
(***************************************************************************)
TransformMatrix(a, b, c, d, e, f) == [a |-> a, b |-> b, c |-> c, d |-> d, e |-> e, f |-> f]

identity == TransformMatrix(1, 0, 0, 1, 0, 0)

translate(tx, ty) == TransformMatrix(1, 0, 0, 1, tx, ty)

scale(sx, sy) == TransformMatrix(sx, 0, 0, sy, 0, 0)

multiply_reversed(self, other) ==
    [a |-> other.a * self.a + other.b * self.c,
     b |-> other.a * self.b + other.b * self.d,
     c |-> other.c * self.a + other.d * self.c,
     d |-> other.c * self.b + other.d * self.d,
     e |-> other.e * self.a + other.f * self.c + self.e,
     f |-> other.e * self.b + other.f * self.d + self.f]

multiply_no_translation(self, other) ==
    [a |-> self.a * other.a + self.b * other.c,
     b |-> self.a * other.b + self.b * other.d,
     c |-> self.c * other.a + self.d * other.c,
     d |-> self.c * other.b + self.d * other.d,
     e |-> self.e * other.a + self.f * other.c,
     f |-> self.e * other.b + self.f * other.d]

multiply_translation_by_self(self, other) ==
    [a |-> self.a * other.a + self.b * other.c,
     b |-> self.a * other.b + self.b * other.d,
     c |-> self.c * other.a + self.d * other.c,
     d |-> self.c * other.b + self.d * other.d,
     e |-> self.a * other.e + self.c * other.f + self.e,
     f |-> self.b * other.e + self.d * other.f + self.f]

multiply(self, other) ==
    [a |-> self.a * other.a + self.b * other.c,
     b |-> self.a * other.b + self.b * other.d,
     c |-> self.c * other.a + self.d * other.c,
     d |-> self.c * other.b + self.d * other.d,
     e |-> self.e * other.a + self.f * other.c + other.e,
     f |-> self.e * other.b + self.f * other.d + other.f]

transform_point(self, x, y) ==
    <<self.a * x + self.c * y + self.e,
      self.b * x + self.d * y + self.f>>

\* scale_x() is sqrt(a*a + c*c); the model keeps the radicand, a value sqrt determines
scale_x_squared(self) == self.a * self.a + self.c * self.c

\* f32::sqrt rounded down to a whole number, by bisection between lo and hi
RECURSIVE sqrt_between(_, _, _)
sqrt_halve(lo, hi, mid, n) ==
    IF mid * mid <= n THEN sqrt_between(mid, hi, n) ELSE sqrt_between(lo, mid, n)

sqrt_between(lo, hi, n) ==
    IF hi - lo <= 1 THEN lo ELSE sqrt_halve(lo, hi, (lo + hi) \div 2, n)

sqrt_floor(n) == sqrt_between(0, n + 1, n)

\* scale_y() is sqrt(b*b + d*d).  The model gives it in thousandths, rounded down: exact
\* where the radicand is a perfect square, within a thousandth of the code elsewhere.
scale_y_milli(self) ==
    sqrt_between(1000 * sqrt_floor(self.b * self.b + self.d * self.d),
                 1000 * (sqrt_floor(self.b * self.b + self.d * self.d) + 1),
                 1000000 * (self.b * self.b + self.d * self.d))

Bounds(x, y, width, height) == [x |-> x, y |-> y, width |-> width, height |-> height]

(***************************************************************************)
(* models.rs: PathCommand                                                  *)
(***************************************************************************)
MoveTo(x, y) == [type |-> "MoveTo", x |-> x, y |-> y]

LineTo(x, y) == [type |-> "LineTo", x |-> x, y |-> y]

CurveTo(x1, y1, x2, y2, x, y) ==
    [type |-> "CurveTo", x1 |-> x1, y1 |-> y1, x2 |-> x2, y2 |-> y2, x |-> x, y |-> y]

ClosePath == [type |-> "ClosePath"]

(***************************************************************************)
(* graphics_state.rs: GraphicsState                                        *)
(***************************************************************************)
GraphicsState_default ==
    [ctm          |-> identity,
     fill_color   |-> <<0, 0, 0, 1>>,
     stroke_color |-> <<0, 0, 0, 1>>,
     line_width   |-> 1,
     font_name    |-> None,
     font_size    |-> 12,
     text_matrix  |-> identity,
     line_matrix  |-> identity,
     char_spacing |-> 0,
     word_spacing |-> 0,
     text_rise    |-> 0,
     leading      |-> 0]

cmyk_to_rgb_no_black(c, m, y, k) == <<1 - c, 1 - m, 1 - y>>

cmyk_to_rgb(c, m, y, k) == <<(1 - c) * (1 - k), (1 - m) * (1 - k), (1 - y) * (1 - k)>>

\* `(c * 255.0) as u8`: the cast saturates at 0 and at 255
as_u8(v) == IF v < 0 THEN 0 ELSE IF v > 255 THEN 255 ELSE v

\* the char of one hexadecimal digit, lower case
hex_digit(n) == IF n < 10 THEN 48 + n ELSE 87 + n

\* {:02x}
format_02x(n) == <<hex_digit(n \div 16), hex_digit(n % 16)>>

\* format!("#{:02x}{:02x}{:02x}", ..)
rgba_to_hex(color) ==
    <<35>> \o format_02x(as_u8(color[1] * 255)) \o format_02x(as_u8(color[2] * 255))
           \o format_02x(as_u8(color[3] * 255))

str_arial == <<97, 114, 105, 97, 108>>

str_helvetica == <<104, 101, 108, 118, 101, 116, 105, 99, 97>>

str_georgia == <<103, 101, 111, 114, 103, 105, 97>>

str_Arial == <<65, 114, 105, 97, 108>>

str_Times_New_Roman == <<84, 105, 109, 101, 115, 32, 78, 101, 119, 32, 82, 111, 109, 97, 110>>

str_Courier_New == <<67, 111, 117, 114, 105, 101, 114, 32, 78, 101, 119>>

str_Georgia == <<71, 101, 111, 114, 103, 105, 97>>

\* pdf_name.find('+'): the position of the first '+', counted from 0
find_plus(name) ==
    IF \E i \in 1..Len(name) : name[i] = 43
    THEN Some((CHOOSE i \in 1..Len(name) :
                  name[i] = 43 /\ \A j \in 1..(i - 1) : name[j] # 43) - 1)
    ELSE None

normalize_font_name(pdf_name) ==
    IF \/ contains(to_lowercase(pdf_name), str_arial)
       \/ contains(to_lowercase(pdf_name), str_helvetica)
    THEN str_Arial
    ELSE IF contains(to_lowercase(pdf_name), str_times) THEN str_Times_New_Roman
    ELSE IF contains(to_lowercase(pdf_name), str_courier) THEN str_Courier_New
    ELSE IF contains(to_lowercase(pdf_name), str_georgia) THEN str_Georgia
    ELSE IF is_some(find_plus(pdf_name))
         THEN SubSeq(pdf_name, find_plus(pdf_name)[1] + 2, Len(pdf_name))
         ELSE pdf_name

(***************************************************************************)
(* path_ops.rs: the path transform                                         *)
(***************************************************************************)
update_bounds(x, y, bb) ==
    [min_x |-> f32_min(bb.min_x, x),
     min_y |-> f32_min(bb.min_y, y),
     max_x |-> f32_max(bb.max_x, x),
     max_y |-> f32_max(bb.max_y, y)]

\* transform_point, then `let ty = page_height - ty`
to_output_unflipped(ctm, page_height, x, y) == transform_point(ctm, x, y)

to_output(ctm, page_height, x, y) ==
    <<transform_point(ctm, x, y)[1], page_height - transform_point(ctm, x, y)[2]>>

\* The result pairs the transformed command with the updated running bounds
\* (the code's four &mut f32 accumulators).
moved_to(p, bb) == [cmd |-> MoveTo(p[1], p[2]), bb |-> update_bounds(p[1], p[2], bb)]

lined_to(p, bb) == [cmd |-> LineTo(p[1], p[2]), bb |-> update_bounds(p[1], p[2], bb)]

curved_to(p1, p2, p, bb) ==
    [cmd |-> CurveTo(p1[1], p1[2], p2[1], p2[2], p[1], p[2]),
     bb  |-> update_bounds(p[1], p[2],
                update_bounds(p2[1], p2[2], update_bounds(p1[1], p1[2], bb)))]

transform_command(cmd, ctm, page_height, bb) ==
    CASE cmd.type = "MoveTo" -> moved_to(to_output(ctm, page_height, cmd.x, cmd.y), bb)
      [] cmd.type = "LineTo" -> lined_to(to_output(ctm, page_height, cmd.x, cmd.y), bb)
      [] cmd.type = "CurveTo" ->
            curved_to(to_output(ctm, page_height, cmd.x1, cmd.y1),
                      to_output(ctm, page_height, cmd.x2, cmd.y2),
                      to_output(ctm, page_height, cmd.x, cmd.y), bb)
      [] OTHER -> [cmd |-> ClosePath, bb |-> bb]

\* commands.iter().map(transform_command).collect(), threading the running bounds
RECURSIVE transform_commands(_, _, _, _, _)
step_commands(r, commands, ctm, page_height, done) ==
    transform_commands(Tail(commands), ctm, page_height, r.bb, Append(done, r.cmd))

transform_commands(commands, ctm, page_height, bb, done) ==
    IF commands = <<>>
    THEN [commands |-> done, bb |-> bb]
    ELSE step_commands(transform_command(Head(commands), ctm, page_height, bb),
                       commands, ctm, page_height, done)

bounds_of_unfloored(bb) ==
    Bounds(bb.min_x, bb.min_y, bb.max_x - bb.min_x, bb.max_y - bb.min_y)

bounds_of(bb) ==
    Bounds(bb.min_x, bb.min_y, f32_max(bb.max_x - bb.min_x, 1), f32_max(bb.max_y - bb.min_y, 1))

extracted_path(r, stroke, fill, line_width, ctm) ==
    [commands     |-> r.commands,
     stroke_color |-> stroke,
     fill_color   |-> fill,
     line_width   |-> [line_width |-> line_width, scale_x_squared |-> scale_x_squared(ctm)],
     bounds       |-> bounds_of(r.bb),
     transform    |-> ctm]

transform_path(commands, stroke, fill, line_width, ctm, page_height) ==
    extracted_path(
        transform_commands(commands, ctm, page_height,
            [min_x |-> F32_MAX, min_y |-> F32_MAX, max_x |-> F32_MIN, max_y |-> F32_MIN], <<>>),
        stroke, fill, line_width, ctm)

(***************************************************************************)
(* text_ops.rs: the text record.  Its numbers x, y, width, height and      *)
(* font_size are kept in thousandths (1.15 is 1150), products rounded down *)
(***************************************************************************)
\* 0.6 for a monospace font, 0.45 for Times, 0.52 otherwise, in hundredths
width_factor(font_name) ==
    IF \/ contains(to_lowercase(font_name), str_courier)
       \/ contains(to_lowercase(font_name), str_mono)
    THEN 60
    ELSE IF contains(to_lowercase(font_name), str_times) THEN 45 ELSE 52

\* text.chars().count() * font_size * width_factor
calculate_text_width(text, font_size, font_name) ==
    (Len(text) * font_size * width_factor(font_name)) \div 100

\* the record, given the combined matrix, the font name and the effective font size
ExtractedText(text, state, page_height, combined, font_name, effective_font_size) ==
    [text      |-> text,
     x         |-> 1000 * combined.e,
     y         |-> 1000 * page_height - 1000 * (combined.f + state.text_rise)
                       - (effective_font_size * 8) \div 10,
     width     |-> f32_max(calculate_text_width(text, effective_font_size, font_name), 1000),
     height    |-> f32_max((effective_font_size * 115) \div 100, 1000),
     font_name |-> font_name,
     font_size |-> effective_font_size,
     color     |-> state.fill_color,
     transform |-> combined]

\* effective_font_size = state.font_size * combined.scale_y().abs().max(0.1)
text_at(text, state, page_height, combined) ==
    ExtractedText(text, state, page_height, combined,
                  unwrap_or(state.font_name, str_Helvetica),
                  state.font_size * f32_max(scale_y_milli(combined), 100))

create_text_matrix_first(text, state, page_height) ==
    text_at(text, state, page_height, multiply(state.text_matrix, state.ctm))

create_text(text, state, page_height) ==
    text_at(text, state, page_height, multiply(state.ctm, state.text_matrix))

(***************************************************************************)
(* content_parser.rs: operand helpers                                      *)
(***************************************************************************)
\* idx counts from 0 as in the code; an Integer converts to f32, a Real is taken as is
get_float_opt(ops, idx) ==
    IF idx < Len(ops)
    THEN IF ops[idx + 1].kind \in {"Integer", "Real"} THEN Some(ops[idx + 1].val) ELSE None
    ELSE None

get_float(ops, idx) == unwrap_or(get_float_opt(ops, idx), 0)

parse_matrix(ops) ==
    TransformMatrix(get_float(ops, 0), get_float(ops, 1), get_float(ops, 2),
                    get_float(ops, 3), get_float(ops, 4), get_float(ops, 5))

\* a string that is not UTF-8: UTF-16BE after the bytes FE FF, lossy UTF-8 otherwise
decode_non_utf8(bytes) ==
    IF Len(bytes) >= 2 /\ bytes[1] = 254 /\ bytes[2] = 255
    THEN decode_utf16be(SubSeq(bytes, 3, Len(bytes)))
    ELSE Some(from_utf8_lossy(bytes))

extract_text_from_object(obj) ==
    CASE obj.kind = "String" ->
            IF is_some(from_utf8(obj.val)) THEN from_utf8(obj.val) ELSE decode_non_utf8(obj.val)
      [] obj.kind = "Name" -> Some(from_utf8_lossy(obj.val))
      [] OTHER -> None

extract_string(ops, idx) ==
    IF idx < Len(ops) THEN extract_text_from_object(ops[idx + 1]) ELSE None

(***************************************************************************)
(* content_parser.rs: ParseContext                                         *)
(***************************************************************************)
ParseContext_new(page_height) ==
    [texts         |-> <<>>,
     paths         |-> <<>>,
     state_stack   |-> <<GraphicsState_default>>,
     current_path  |-> <<>>,
     path_start    |-> <<0, 0>>,
     current_point |-> <<0, 0>>,
     page_height   |-> page_height]

state(c) == c.state_stack[Len(c.state_stack)]

\* *self.state_mut() = s
state_mut(c, s) == [c EXCEPT !.state_stack[Len(c.state_stack)] = s]

\* Vec::pop: removes the last element, nothing on an empty vector
pop_below_top(stack) ==
    IF Len(stack) >= 2
    THEN Append(SubSeq(stack, 1, Len(stack) - 2), stack[Len(stack)])
    ELSE stack

pop(stack) == SubSeq(stack, 1, Len(stack) - 1)

op_q(c) == [c EXCEPT !.state_stack = Append(c.state_stack, state(c))]

op_Q_unguarded(c) == [c EXCEPT !.state_stack = pop(c.state_stack)]

op_Q_reset(c) ==
    IF Len(c.state_stack) > 1
    THEN [c EXCEPT !.state_stack = pop(c.state_stack)]
    ELSE [c EXCEPT !.state_stack = <<GraphicsState_default>>]

op_Q(c) ==
    IF Len(c.state_stack) > 1
    THEN [c EXCEPT !.state_stack = pop(c.state_stack)]
    ELSE c

\* Transform operations
op_cm_premultiply(c, ops) ==
    IF Len(ops) >= 6
    THEN state_mut(c, [state(c) EXCEPT !.ctm = multiply(parse_matrix(ops), state(c).ctm)])
    ELSE c

op_cm(c, ops) ==
    IF Len(ops) >= 6
    THEN state_mut(c, [state(c) EXCEPT !.ctm = multiply(state(c).ctm, parse_matrix(ops))])
    ELSE c

op_w(c, ops) ==
    LET w == get_float_opt(ops, 0)
    IN  IF is_some(w) THEN state_mut(c, [state(c) EXCEPT !.line_width = w[1]]) ELSE c

\* Path construction
op_m(c, ops) ==
    LET x == get_float_opt(ops, 0)
        y == get_float_opt(ops, 1)
    IN  IF is_some(x) /\ is_some(y)
        THEN [c EXCEPT !.current_path  = Append(@, MoveTo(x[1], y[1])),
                       !.path_start    = <<x[1], y[1]>>,
                       !.current_point = <<x[1], y[1]>>]
        ELSE c

op_l(c, ops) ==
    LET x == get_float_opt(ops, 0)
        y == get_float_opt(ops, 1)
    IN  IF is_some(x) /\ is_some(y)
        THEN [c EXCEPT !.current_path  = Append(@, LineTo(x[1], y[1])),
                       !.current_point = <<x[1], y[1]>>]
        ELSE c

op_c(c, ops) ==
    IF Len(ops) >= 6
    THEN [c EXCEPT !.current_path  = Append(@, CurveTo(get_float(ops, 0), get_float(ops, 1),
                                                      get_float(ops, 2), get_float(ops, 3),
                                                      get_float(ops, 4), get_float(ops, 5))),
                   !.current_point = <<get_float(ops, 4), get_float(ops, 5)>>]
    ELSE c

op_v_control_repeated(c, ops) ==
    IF Len(ops) >= 4
    THEN [c EXCEPT !.current_path  = Append(@, CurveTo(get_float(ops, 0), get_float(ops, 1),
                                                      get_float(ops, 0), get_float(ops, 1),
                                                      get_float(ops, 2), get_float(ops, 3))),
                   !.current_point = <<get_float(ops, 2), get_float(ops, 3)>>]
    ELSE c

op_v(c, ops) ==
    IF Len(ops) >= 4
    THEN [c EXCEPT !.current_path  = Append(@, CurveTo(c.current_point[1], c.current_point[2],
                                                      get_float(ops, 0), get_float(ops, 1),
                                                      get_float(ops, 2), get_float(ops, 3))),
                   !.current_point = <<get_float(ops, 2), get_float(ops, 3)>>]
    ELSE c

op_y(c, ops) ==
    IF Len(ops) >= 4
    THEN LET x == get_float(ops, 2)
             y == get_float(ops, 3)
         IN  [c EXCEPT !.current_path  = Append(@, CurveTo(get_float(ops, 0), get_float(ops, 1),
                                                          x, y, x, y)),
                       !.current_point = <<x, y>>]
    ELSE c

op_h(c) ==
    [c EXCEPT !.current_path  = Append(@, ClosePath),
              !.current_point = c.path_start]

op_re_clockwise(c, ops) ==
    IF Len(ops) >= 4
    THEN LET x == get_float(ops, 0)
             y == get_float(ops, 1)
             w == get_float(ops, 2)
             h == get_float(ops, 3)
         IN  [c EXCEPT !.current_path  = @ \o <<MoveTo(x, y), LineTo(x, y + h),
                                                LineTo(x + w, y + h), LineTo(x + w, y),
                                                ClosePath>>,
                       !.path_start    = <<x, y>>,
                       !.current_point = <<x, y>>]
    ELSE c

op_re(c, ops) ==
    IF Len(ops) >= 4
    THEN LET x == get_float(ops, 0)
             y == get_float(ops, 1)
             w == get_float(ops, 2)
             h == get_float(ops, 3)
         IN  [c EXCEPT !.current_path  = @ \o <<MoveTo(x, y), LineTo(x + w, y),
                                                LineTo(x + w, y + h), LineTo(x, y + h),
                                                ClosePath>>,
                       !.path_start    = <<x, y>>,
                       !.current_point = <<x, y>>]
    ELSE c

\* Path painting
paint_stroke_unclosed(c, close) ==
    IF c.current_path # <<>>
    THEN [c EXCEPT !.paths = Append(@, transform_path(c.current_path,
                                   Some(state(c).stroke_color), None,
                                   state(c).line_width, state(c).ctm, c.page_height)),
                   !.current_path = <<>>]
    ELSE c

\* the optional ClosePath is pushed before the emptiness test
paint_stroke(c, close) ==
    LET c1 == IF close THEN [c EXCEPT !.current_path = Append(@, ClosePath)] ELSE c
    IN  IF c1.current_path # <<>>
        THEN [c1 EXCEPT !.paths = Append(@, transform_path(c1.current_path,
                                        Some(state(c1).stroke_color), None,
                                        state(c1).line_width, state(c1).ctm, c1.page_height)),
                        !.current_path = <<>>]
        ELSE c1

paint_fill_bottom_ctm(c) ==
    IF c.current_path # <<>>
    THEN [c EXCEPT !.paths = Append(@, transform_path(c.current_path,
                                   None, Some(state(c).fill_color),
                                   state(c).line_width, c.state_stack[1].ctm, c.page_height)),
                   !.current_path = <<>>]
    ELSE c

paint_fill_with_stroke(c) ==
    IF c.current_path # <<>>
    THEN [c EXCEPT !.paths = Append(@, transform_path(c.current_path,
                                   Some(state(c).stroke_color), None,
                                   state(c).line_width, state(c).ctm, c.page_height)),
                   !.current_path = <<>>]
    ELSE c

paint_fill(c) ==
    IF c.current_path # <<>>
    THEN [c EXCEPT !.paths = Append(@, transform_path(c.current_path,
                                   None, Some(state(c).fill_color),
                                   state(c).line_width, state(c).ctm, c.page_height)),
                   !.current_path = <<>>]
    ELSE c

paint_both_swapped(c, close) ==
    LET c1 == IF close THEN [c EXCEPT !.current_path = Append(@, ClosePath)] ELSE c
    IN  IF c1.current_path # <<>>
        THEN [c1 EXCEPT !.paths = Append(@, transform_path(c1.current_path,
                                        Some(state(c1).fill_color), Some(state(c1).stroke_color),
                                        state(c1).line_width, state(c1).ctm, c1.page_height)),
                        !.current_path = <<>>]
        ELSE c1

paint_both(c, close) ==
    LET c1 == IF close THEN [c EXCEPT !.current_path = Append(@, ClosePath)] ELSE c
    IN  IF c1.current_path # <<>>
        THEN [c1 EXCEPT !.paths = Append(@, transform_path(c1.current_path,
                                        Some(state(c1).stroke_color), Some(state(c1).fill_color),
                                        state(c1).line_width, state(c1).ctm, c1.page_height)),
                        !.current_path = <<>>]
        ELSE c1

op_n_keeps_path(c) == c

op_n(c) == [c EXCEPT !.current_path = <<>>]

\* Color operations
op_g(c, ops) ==
    LET g == get_float_opt(ops, 0)
    IN  IF is_some(g)
        THEN state_mut(c, [state(c) EXCEPT !.fill_color = <<g[1], g[1], g[1], 1>>])
        ELSE c

op_G(c, ops) ==
    LET g == get_float_opt(ops, 0)
    IN  IF is_some(g)
        THEN state_mut(c, [state(c) EXCEPT !.stroke_color = <<g[1], g[1], g[1], 1>>])
        ELSE c

op_rg(c, ops) ==
    IF Len(ops) >= 3
    THEN state_mut(c, [state(c) EXCEPT !.fill_color =
             <<get_float(ops, 0), get_float(ops, 1), get_float(ops, 2), 1>>])
    ELSE c

op_RG(c, ops) ==
    IF Len(ops) >= 3
    THEN state_mut(c, [state(c) EXCEPT !.stroke_color =
             <<get_float(ops, 0), get_float(ops, 1), get_float(ops, 2), 1>>])
    ELSE c

op_k(c, ops) ==
    IF Len(ops) >= 4
    THEN LET rgb == cmyk_to_rgb(get_float(ops, 0), get_float(ops, 1),
                                get_float(ops, 2), get_float(ops, 3))
         IN  state_mut(c, [state(c) EXCEPT !.fill_color = <<rgb[1], rgb[2], rgb[3], 1>>])
    ELSE c

op_K(c, ops) ==
    IF Len(ops) >= 4
    THEN LET rgb == cmyk_to_rgb(get_float(ops, 0), get_float(ops, 1),
                                get_float(ops, 2), get_float(ops, 3))
         IN  state_mut(c, [state(c) EXCEPT !.stroke_color = <<rgb[1], rgb[2], rgb[3], 1>>])
    ELSE c

\* Text state
op_Tc(c, ops) ==
    LET v == get_float_opt(ops, 0)
    IN  IF is_some(v) THEN state_mut(c, [state(c) EXCEPT !.char_spacing = v[1]]) ELSE c

op_Tw(c, ops) ==
    LET v == get_float_opt(ops, 0)
    IN  IF is_some(v) THEN state_mut(c, [state(c) EXCEPT !.word_spacing = v[1]]) ELSE c

op_TL(c, ops) ==
    LET v == get_float_opt(ops, 0)
    IN  IF is_some(v) THEN state_mut(c, [state(c) EXCEPT !.leading = v[1]]) ELSE c

op_Ts(c, ops) ==
    LET v == get_float_opt(ops, 0)
    IN  IF is_some(v) THEN state_mut(c, [state(c) EXCEPT !.text_rise = v[1]]) ELSE c

\* as_name() succeeds on a Name only; the font size is set either way
op_Tf(c, ops) ==
    IF Len(ops) >= 2
    THEN LET named == IF ops[1].kind = "Name"
                      THEN [state(c) EXCEPT !.font_name = Some(from_utf8_lossy(ops[1].val))]
                      ELSE state(c)
         IN  state_mut(c, [named EXCEPT !.font_size = get_float(ops, 1)])
    ELSE c

\* Text positioning
op_BT_resets_ctm(c) ==
    state_mut(c, [state(c) EXCEPT !.ctm = identity, !.text_matrix = identity,
                                  !.line_matrix = identity])

op_BT(c) ==
    state_mut(c, [state(c) EXCEPT !.text_matrix = identity, !.line_matrix = identity])

op_Tm(c, ops) ==
    IF Len(ops) >= 6
    THEN LET m == parse_matrix(ops)
         IN  state_mut(c, [state(c) EXCEPT !.text_matrix = m, !.line_matrix = m])
    ELSE c

op_Td_premultiply(c, ops) ==
    LET tx == get_float_opt(ops, 0)
        ty == get_float_opt(ops, 1)
    IN  IF is_some(tx) /\ is_some(ty)
        THEN LET lm == multiply(translate(tx[1], ty[1]), state(c).line_matrix)
             IN  state_mut(c, [state(c) EXCEPT !.line_matrix = lm, !.text_matrix = lm])
        ELSE c

op_Td(c, ops) ==
    LET tx == get_float_opt(ops, 0)
        ty == get_float_opt(ops, 1)
    IN  IF is_some(tx) /\ is_some(ty)
        THEN LET lm == multiply(state(c).line_matrix, translate(tx[1], ty[1]))
             IN  state_mut(c, [state(c) EXCEPT !.line_matrix = lm, !.text_matrix = lm])
        ELSE c

op_TD_line_matrix_only(c, ops) ==
    LET tx == get_float_opt(ops, 0)
        ty == get_float_opt(ops, 1)
    IN  IF is_some(tx) /\ is_some(ty)
        THEN LET lm == multiply(state(c).line_matrix, translate(tx[1], ty[1]))
             IN  state_mut(c, [state(c) EXCEPT !.leading = -ty[1], !.line_matrix = lm])
        ELSE c

op_TD(c, ops) ==
    LET tx == get_float_opt(ops, 0)
        ty == get_float_opt(ops, 1)
    IN  IF is_some(tx) /\ is_some(ty)
        THEN LET lm == multiply(state(c).line_matrix, translate(tx[1], ty[1]))
             IN  state_mut(c, [state(c) EXCEPT !.leading = -ty[1],
                                               !.line_matrix = lm, !.text_matrix = lm])
        ELSE c

op_Tstar_upward(c) ==
    LET lm == multiply(state(c).line_matrix, translate(0, state(c).leading))
    IN  state_mut(c, [state(c) EXCEPT !.line_matrix = lm, !.text_matrix = lm])

op_Tstar(c) ==
    LET lm == multiply(state(c).line_matrix, translate(0, -state(c).leading))
    IN  state_mut(c, [state(c) EXCEPT !.line_matrix = lm, !.text_matrix = lm])

\* Text showing.  A text that is empty or all whitespace is not pushed.
show_text_untrimmed(c, text) ==
    IF text # <<>>
    THEN [c EXCEPT !.texts = Append(@, create_text(text, state(c), c.page_height))]
    ELSE c

show_text_newest_first(c, text) ==
    IF ~trim_is_empty(text)
    THEN [c EXCEPT !.texts = <<create_text(text, state(c), c.page_height)>> \o @]
    ELSE c

show_text(c, text) ==
    IF ~trim_is_empty(text)
    THEN [c EXCEPT !.texts = Append(@, create_text(text, state(c), c.page_height))]
    ELSE c

op_Tj_advancing(c, ops) ==
    IF is_some(extract_string(ops, 0))
    THEN LET shown == show_text(c, extract_string(ops, 0)[1])
         IN  state_mut(shown, [state(shown) EXCEPT
                 !.text_matrix = multiply(translate(Len(extract_string(ops, 0)[1]), 0), @)])
    ELSE c

op_Tj(c, ops) ==
    IF is_some(extract_string(ops, 0)) THEN show_text(c, extract_string(ops, 0)[1]) ELSE c

\* what a string element of a TJ array adds to `combined`; nothing when the bytes after
\* FE FF do not decode
TJ_string(bytes) ==
    IF is_some(from_utf8(bytes)) THEN from_utf8(bytes)[1]
    ELSE IF Len(bytes) >= 2 /\ bytes[1] = 254 /\ bytes[2] = 255
         THEN unwrap_or(decode_utf16be(SubSeq(bytes, 3, Len(bytes))), <<>>)
         ELSE from_utf8_lossy(bytes)

\* what one element of a TJ array adds to `combined`
TJ_item_inclusive(item) ==
    CASE item.kind = "String" -> TJ_string(item.val)
      [] item.kind \in {"Integer", "Real"} ->
            IF is_some(get_float_opt(<<item>>, 0)) /\ get_float_opt(<<item>>, 0)[1] <= -100
            THEN <<32>>
            ELSE <<>>
      [] OTHER -> <<>>

TJ_item(item) ==
    CASE item.kind = "String" -> TJ_string(item.val)
      [] item.kind \in {"Integer", "Real"} ->
            IF is_some(get_float_opt(<<item>>, 0)) /\ get_float_opt(<<item>>, 0)[1] < -100
            THEN <<32>>
            ELSE <<>>
      [] OTHER -> <<>>

\* `for item in array`, from element i on
RECURSIVE TJ_combined(_, _, _)
TJ_combined(array, i, combined) ==
    IF i > Len(array)
    THEN combined
    ELSE TJ_combined(array, i + 1, combined \o TJ_item(array[i]))

\* as_array() succeeds on an Array only
op_TJ(c, ops) ==
    IF ops = <<>> THEN c
    ELSE IF ops[1].kind = "Array"
         THEN show_text(c, TJ_combined(ops[1].val, 1, <<>>))
         ELSE c

op_quote_show_first(c, ops) == op_Tstar(op_Tj(c, ops))

op_quote(c, ops) == op_Tj(op_Tstar(c), ops)

\* the tail of op_dquote, after the spacings are set and the line is moved
dquote_show(c, ops) ==
    IF is_some(extract_string(ops, 2)) THEN show_text(c, extract_string(ops, 2)[1]) ELSE c

op_dquote_spacings_swapped(c, ops) ==
    IF Len(ops) >= 3
    THEN dquote_show(
             op_Tstar(state_mut(c, [state(c) EXCEPT !.word_spacing = get_float(ops, 1),
                                                    !.char_spacing = get_float(ops, 0)])),
             ops)
    ELSE c

op_dquote(c, ops) ==
    IF Len(ops) >= 3
    THEN dquote_show(
             op_Tstar(state_mut(c, [state(c) EXCEPT !.word_spacing = get_float(ops, 0),
                                                    !.char_spacing = get_float(ops, 1)])),
             ops)
    ELSE c

\* `_ => {}`
op_other_clears_path(c) == [c EXCEPT !.current_path = <<>>]

op_other(c) == c

\* The dispatcher, arm by arm, the last being the code's `_ => {}`.
process_operator(c, op, ops) ==
    CASE op = "q"  -> op_q(c)
      [] op = "Q"  -> op_Q(c)
      [] op = "cm" -> op_cm(c, ops)
      [] op = "w"  -> op_w(c, ops)
      [] op = "m"  -> op_m(c, ops)
      [] op = "l"  -> op_l(c, ops)
      [] op = "c"  -> op_c(c, ops)
      [] op = "v"  -> op_v(c, ops)
      [] op = "y"  -> op_y(c, ops)
      [] op = "h"  -> op_h(c)
      [] op = "re" -> op_re(c, ops)
      [] op = "S"  -> paint_stroke(c, FALSE)
      [] op = "s"  -> paint_stroke(c, TRUE)
      [] op \in {"f", "F", "f*"} -> paint_fill(c)
      [] op \in {"B", "B*"} -> paint_both(c, FALSE)
      [] op \in {"b", "b*"} -> paint_both(c, TRUE)
      [] op = "n"  -> op_n(c)
      [] op = "g"  -> op_g(c, ops)
      [] op = "G"  -> op_G(c, ops)
      [] op = "rg" -> op_rg(c, ops)
      [] op = "RG" -> op_RG(c, ops)
      [] op = "k"  -> op_k(c, ops)
      [] op = "K"  -> op_K(c, ops)
      [] op = "Tc" -> op_Tc(c, ops)
      [] op = "Tw" -> op_Tw(c, ops)
      [] op = "TL" -> op_TL(c, ops)
      [] op = "Ts" -> op_Ts(c, ops)
      [] op = "Tf" -> op_Tf(c, ops)
      [] op = "BT" -> op_BT(c)
      [] op = "Tm" -> op_Tm(c, ops)
      [] op = "Td" -> op_Td(c, ops)
      [] op = "TD" -> op_TD(c, ops)
      [] op = "T*" -> op_Tstar(c)
      [] op = "Tj" -> op_Tj(c, ops)
      [] op = "TJ" -> op_TJ(c, ops)
      [] op = "'"  -> op_quote(c, ops)
      [] op = "\"" -> op_dquote(c, ops)
      [] OTHER     -> op_other(c)

(***************************************************************************)
(* The reads of the dispatcher that panic when they find nothing:          *)
(* state_stack.last().unwrap() in state() and state_mut(), and ops[0]      *)
(***************************************************************************)
\* whether the arm calls state() or state_mut() on these operands
reads_top_state(c, op, ops) ==
    CASE op \in {"q", "s", "b", "b*", "BT", "T*", "'"} -> TRUE
      [] op \in {"cm", "Tm"} -> Len(ops) >= 6
      [] op \in {"w", "g", "G", "Tc", "Tw", "TL", "Ts"} -> is_some(get_float_opt(ops, 0))
      [] op \in {"Td", "TD"} -> is_some(get_float_opt(ops, 0)) /\ is_some(get_float_opt(ops, 1))
      [] op \in {"rg", "RG", "\""} -> Len(ops) >= 3
      [] op \in {"k", "K"} -> Len(ops) >= 4
      [] op = "Tf" -> Len(ops) >= 2
      [] op \in {"S", "f", "F", "f*", "B", "B*"} -> c.current_path # <<>>
      [] op = "Tj" ->
            is_some(extract_string(ops, 0)) /\ ~trim_is_empty(extract_string(ops, 0)[1])
      [] op = "TJ" ->
            /\ ops # <<>>
            /\ ops[1].kind = "Array"
            /\ ~trim_is_empty(TJ_combined(ops[1].val, 1, <<>>))
      [] OTHER -> FALSE

\* the operand positions the arm reads as ops[i]: ops[0] in op_Tf under ops.len() >= 2
\* and in op_TJ past the is_empty() return
indexed_operands_unguarded(op, ops) ==
    CASE op = "Tf" -> IF Len(ops) >= 2 THEN {0} ELSE {}
      [] op = "TJ" -> {0}
      [] OTHER -> {}

indexed_operands(op, ops) ==
    CASE op = "Tf" -> IF Len(ops) >= 2 THEN {0} ELSE {}
      [] op = "TJ" -> IF ops = <<>> THEN {} ELSE {0}
      [] OTHER -> {}

\* the String operands the arm decodes
decoded_strings(op, ops) ==
    CASE op \in {"Tj", "'"} ->
            IF Len(ops) >= 1 /\ ops[1].kind = "String" THEN {ops[1].val} ELSE {}
      [] op = "\"" ->
            IF Len(ops) >= 3 /\ ops[3].kind = "String" THEN {ops[3].val} ELSE {}
      [] op = "TJ" ->
            IF ops # <<>> /\ ops[1].kind = "Array"
            THEN {ops[1].val[i].val :
                     i \in {n \in 1..Len(ops[1].val) : ops[1].val[n].kind = "String"}}
            ELSE {}
      [] OTHER -> {}

\* the byte strings the arm slices as &bytes[2..]: those that are not UTF-8 and start
\* with FE FF, found under bytes.len() >= 2
sliced_strings(op, ops) ==
    {b \in decoded_strings(op, ops) :
        ~is_some(from_utf8(b)) /\ Len(b) >= 2 /\ b[1] = 254 /\ b[2] = 255}

\* process_operator panics on this context and these operands
panics(c, op, ops) ==
    \/ reads_top_state(c, op, ops) /\ c.state_stack = <<>>
    \/ \E i \in indexed_operands(op, ops) : i >= Len(ops)
    \/ \E b \in sliced_strings(op, ops) : 2 > Len(b)

(***************************************************************************)
(* content_parser.rs: to_layer_objects.  A LayerObject is given by the     *)
(* fields the function computes; its id "vector-{page}-{i}" is the triple  *)
(* of its parts.                                                           *)
(***************************************************************************)
str_bold == <<98, 111, 108, 100>>

str_italic == <<105, 116, 97, 108, 105, 99>>

vector_layer(path, page_index, i, z) ==
    [id           |-> <<"vector", page_index, i>>,
     layer_type   |-> "Vector",
     bounds       |-> path.bounds,
     z_index      |-> z,
     content      |-> None,
     font_family  |-> None,
     font_size    |-> None,
     font_weight  |-> None,
     font_style   |-> None,
     color        |-> IF is_some(path.fill_color) THEN Some(rgba_to_hex(path.fill_color[1]))
                      ELSE None,
     text_align   |-> None,
     stroke_color |-> IF is_some(path.stroke_color) THEN Some(rgba_to_hex(path.stroke_color[1]))
                      ELSE None,
     stroke_width |-> Some(path.line_width),
     fill_color   |-> IF is_some(path.fill_color) THEN Some(rgba_to_hex(path.fill_color[1]))
                      ELSE None,
     path_data    |-> Some([commands |-> path.commands, fill_rule |-> None]),
     transform    |-> Some(path.transform)]

text_layer(text, page_index, i, z) ==
    [id           |-> <<"text", page_index, i>>,
     layer_type   |-> "Text",
     bounds       |-> Bounds(text.x, text.y, text.width, text.height),
     z_index      |-> z,
     content      |-> Some(text.text),
     font_family  |-> Some(normalize_font_name(text.font_name)),
     font_size    |-> Some(text.font_size),
     font_weight  |-> Some(IF contains(to_lowercase(text.font_name), str_bold)
                           THEN 700 ELSE 400),
     font_style   |-> IF contains(to_lowercase(text.font_name), str_italic)
                      THEN Some(str_italic) ELSE None,
     color        |-> Some(rgba_to_hex(text.color)),
     text_align   |-> Some("Left"),
     stroke_color |-> None,
     stroke_width |-> None,
     fill_color   |-> None,
     path_data    |-> None,
     transform    |-> Some(text.transform)]

\* `for (i, path) in paths.into_iter().enumerate()`, from the path at position i on;
\* acc holds `layers` and `z`
RECURSIVE vector_layers(_, _, _, _)
vector_layers(paths, page_index, i, acc) ==
    IF i >= Len(paths)
    THEN acc
    ELSE vector_layers(paths, page_index, i + 1,
             [layers |-> Append(acc.layers, vector_layer(paths[i + 1], page_index, i, acc.z)),
              z      |-> acc.z + 1])

\* `for (i, text) in texts.into_iter().enumerate()`
RECURSIVE text_layers(_, _, _, _)
text_layers(texts, page_index, i, acc) ==
    IF i >= Len(texts)
    THEN acc
    ELSE text_layers(texts, page_index, i + 1,
             [layers |-> Append(acc.layers, text_layer(texts[i + 1], page_index, i, acc.z)),
              z      |-> acc.z + 1])

to_layer_objects_texts_first(texts, paths, page_index) ==
    vector_layers(paths, page_index, 0,
        text_layers(texts, page_index, 0, [layers |-> <<>>, z |-> 0])).layers

to_layer_objects(texts, paths, page_index) ==
    text_layers(texts, page_index, 0,
        vector_layers(paths, page_index, 0, [layers |-> <<>>, z |-> 0])).layers

(***************************************************************************)
(* Bounds and inputs                                                       *)
(***************************************************************************)
\* longest operator stream of a page under Spec
MaxOps == 2

\* longest operator stream of a page under SpecGraphics
MaxGraphicsOps == 3

\* longest operator stream of a page under SpecRect
MaxRectOps == 5

\* longest operator stream of a page under SpecPaint
MaxPaintOps == 3

PageHeights == {100, 7}

\* byte strings: "F1", "x", "Hi", "Hello", "World", one space
str_F1 == <<70, 49>>

str_x == <<120>>

str_Hi == <<72, 105>>

str_Hello == <<72, 101, 108, 108, 111>>

str_World == <<87, 111, 114, 108, 100>>

str_space == <<32>>

\* an operand list of Integer objects
Ints(ns) == [i \in 1..Len(ns) |-> Integer(ns[i])]

\* an operand list of Real objects
Reals(ns) == [i \in 1..Len(ns) |-> Real(ns[i])]

\* Operand lists per operator under Spec: well-formed ones and a short or ill-typed one
CmOperands ==
    {Ints(<<2, 0, 0, 2, 0, 0>>), Ints(<<1, 1, 0, 1, 1, 2>>), Ints(<<0, 1, -1, 0, 3, 0>>),
     Ints(<<1, 0, 0, 1, 5>>)}

WidthOperands == {<<Integer(3)>>, <<Name(str_F1)>>}

PointOperands == {Ints(<<1, 2>>), Reals(<<4, 3>>), <<Integer(1)>>}

CurveOperands == {Ints(<<1, 1, 2, 3, 4, 2>>), Ints(<<1, 1, 2, 3, 4>>)}

ShortCurveOperands == {Ints(<<2, 3, 4, 2>>), Ints(<<2, 3, 4>>)}

RectOperands ==
    {Ints(<<1, 2, 3, 4>>), <<Integer(1), Integer(2), Name(str_F1), Integer(4)>>, Ints(<<1, 2, 3>>)}

GrayOperands == {<<Integer(1)>>, <<>>}

RgbOperands == {Ints(<<1, 0, 0>>), Ints(<<1, 0>>)}

CmykOperands == {Ints(<<0, 1, 0, 0>>), Ints(<<0, 0, 0>>)}

NumberOperands == {<<Integer(2)>>, <<String(str_x)>>}

FontOperands == {<<Name(str_F1), Integer(10)>>, <<Integer(1), Integer(9)>>, <<Name(str_F1)>>}

TmOperands == {Ints(<<1, 0, 0, 1, 3, 4>>), Ints(<<1, 0, 0, 1, 3>>)}

TdOperands == {Ints(<<2, 5>>), <<Integer(2)>>}

TjOperands == {<<String(str_Hi)>>, <<String(<<254>>)>>, <<>>}

TJOperands == {<<Array(<<String(str_Hi), Integer(-250)>>)>>, <<Integer(1)>>, <<>>}

QuoteOperands == {<<String(str_Hi)>>, <<>>}

DquoteOperands == {<<Integer(1), Integer(2), String(str_Hi)>>, <<Integer(1), String(str_Hi)>>}

UnknownOperators == {"ET", "W", "gs", "Do", "sc"}

UnknownOperands == {<<>>, <<Integer(1)>>}

\* Operand lists under SpecGraphics: well-formed only, so that streams can be longer
GraphicsCm == {Ints(<<2, 0, 0, 2, 0, 0>>), Ints(<<1, 1, 0, 1, 1, 2>>)}

GraphicsPoint == {Ints(<<1, 2>>), Reals(<<4, 3>>)}

GraphicsRect == {Ints(<<1, 2, 3, 4>>), Reals(<<0, 0, 2, 1>>)}

\* Operand lists under SpecPaint: black, white, and a colour with one and with two inks
PaintCmyk == {Ints(<<0, 0, 0, 1>>), Ints(<<0, 0, 0, 0>>), Ints(<<0, 1, 0, 0>>), Reals(<<1, 0, 1, 0>>)}

\* longest operator stream of a page under SpecText
MaxTextOps == 2

\* String operands under SpecText.  UTF-8: two ASCII letters, a two-byte letter, a space,
\* a no-break space, nothing.
Utf8Strings == {str_Hi, <<195, 169>>, str_space, <<194, 160>>, <<>>}

\* After FE FF, well-formed UTF-16BE: two letters, a space, a surrogate pair, nothing.
Utf16Strings ==
    {<<254, 255, 0, 72, 0, 105>>, <<254, 255, 0, 32>>, <<254, 255, 216, 61, 222, 0>>,
     <<254, 255>>}

\* After FE FF, not UTF-16BE: an odd number of bytes, a lone surrogate.
BrokenUtf16Strings == {<<254, 255, 0, 72, 0>>, <<254, 255, 216, 0, 0, 72>>}

\* Neither: a byte that is not UTF-8 after a letter, a sequence cut short.
OtherStrings == {<<72, 233>>, <<226, 130>>}

ByteStrings == Utf8Strings \cup Utf16Strings \cup BrokenUtf16Strings \cup OtherStrings

TextTj == {<<String(b)>> : b \in ByteStrings} \cup {<<Name(str_F1)>>, <<Integer(1)>>}

TextQuote == {<<String(str_Hi)>>, <<String(str_space)>>, <<String(<<254, 255, 0, 72, 0>>)>>, <<>>}

TextDquote ==
    {<<Integer(1), Integer(2), String(str_Hi)>>, <<Integer(1), Integer(2), String(str_space)>>,
     <<Integer(1), Integer(2), String(<<254, 255, 216, 0, 0, 72>>)>>,
     <<Integer(1), Integer(2), Integer(3)>>}

\* TJ arrays under SpecText: adjustments below, above and at -100; adjustments alone;
\* elements that are neither strings nor numbers; strings in each encoding
TextArrays ==
    {<<String(str_Hello), Integer(-250), String(str_World)>>,
     <<String(str_Hello), Integer(-50), String(str_World)>>,
     <<String(str_Hello), Integer(-100), String(str_World)>>,
     <<String(str_Hello), Real(-101), String(str_World)>>,
     <<Integer(-250), Real(-300)>>,
     <<Integer(-250), String(str_Hi), Name(str_x), Integer(-300), Integer(7)>>,
     <<String(<<254, 255, 0, 72, 0, 105>>), String(<<72, 233>>)>>,
     <<String(str_Hi), String(<<254, 255, 0, 72, 0>>)>>,
     <<>>}

\* Td offsets under SpecText
TextTd == {Ints(<<2, 5>>), Reals(<<-1, 3>>)}

TextTJ == {<<Array(a)>> : a \in TextArrays}

\* longest operator stream of a page under SpecLayers
MaxLayerOps == 5

PageIndexes == {0, 3}

\* "ABCDEF+Times-BoldItalic"
str_subset_font ==
    <<65, 66, 67, 68, 69, 70, 43, 84, 105, 109, 101, 115, 45, 66, 111, 108, 100, 73, 116,
      97, 108, 105, 99>>

\* Operand lists under SpecRect: uniform scales, and rectangles of positive and of zero width
RectCm == {Ints(<<2, 0, 0, 2, 0, 0>>), Ints(<<3, 0, 0, 3, 0, 0>>)}

RectRe == {Ints(<<0, 0, 10, 10>>), Ints(<<1, 2, 3, 4>>), Ints(<<1, 2, 0, 4>>)}

\* Inputs of the TransformMatrix computations under SpecMatrix
Matrices ==
    {TransformMatrix(a, b, c, d, e, f) :
        a \in {0, 1, 2}, b \in {0, 1}, c \in {0, -1}, d \in {1, 3}, e \in {0, 5}, f \in {0, -2}}

Coords == {<<0, 1>>, <<3, -4>>, <<-2, 0>>}

(***************************************************************************)
(* parse_page_content: one step of `for op in &content.operations`.  Each  *)
(* disjunct of a next-state relation below dispatches one operator of the  *)
(* stream, with operands drawn from the set named in it.                   *)
(***************************************************************************)
\* ctx.process_operator(&op.operator, &op.operands)
Dispatch(op, ops) ==
    /\ layers = None
    /\ ctx' = process_operator(ctx, op, ops)
    /\ history' = Append(history, [operator |-> op, operands |-> ops, before |-> ctx])
    /\ UNCHANGED <<mat, layers, pages>>

\* document_parser.rs: `Ok((texts, paths)) => to_layer_objects(texts, paths, page_index)`
\* on what parse_page_content returns
Do_to_layer_objects(indexes) ==
    \E page_index \in indexes :
        /\ layers = None
        /\ layers' = Some(to_layer_objects(ctx.texts, ctx.paths, page_index))
        /\ UNCHANGED <<ctx, history, mat, pages>>

\* no TransformMatrix computation is under way
MatIdle == [pc |-> "idle"]

Init ==
    /\ \E h \in PageHeights : ctx = ParseContext_new(h)
    /\ history = <<>>
    /\ mat = MatIdle
    /\ layers = None
    /\ pages = <<>>

(***************************************************************************)
(* Spec: the whole dispatcher, well-formed and malformed operands          *)
(***************************************************************************)
Next ==
    \/ Len(history) < MaxOps /\ Dispatch("q", <<>>)
    \/ Len(history) < MaxOps /\ Dispatch("Q", <<>>)
    \/ \E ops \in CmOperands : Len(history) < MaxOps /\ Dispatch("cm", ops)
    \/ \E ops \in WidthOperands : Len(history) < MaxOps /\ Dispatch("w", ops)
    \/ \E ops \in PointOperands : Len(history) < MaxOps /\ Dispatch("m", ops)
    \/ \E ops \in PointOperands : Len(history) < MaxOps /\ Dispatch("l", ops)
    \/ \E ops \in CurveOperands : Len(history) < MaxOps /\ Dispatch("c", ops)
    \/ \E ops \in ShortCurveOperands : Len(history) < MaxOps /\ Dispatch("v", ops)
    \/ \E ops \in ShortCurveOperands : Len(history) < MaxOps /\ Dispatch("y", ops)
    \/ Len(history) < MaxOps /\ Dispatch("h", <<>>)
    \/ \E ops \in RectOperands : Len(history) < MaxOps /\ Dispatch("re", ops)
    \/ Len(history) < MaxOps /\ Dispatch("S", <<>>)
    \/ Len(history) < MaxOps /\ Dispatch("s", <<>>)
    \/ \E op \in {"f", "F", "f*"} : Len(history) < MaxOps /\ Dispatch(op, <<>>)
    \/ \E op \in {"B", "B*"} : Len(history) < MaxOps /\ Dispatch(op, <<>>)
    \/ \E op \in {"b", "b*"} : Len(history) < MaxOps /\ Dispatch(op, <<>>)
    \/ Len(history) < MaxOps /\ Dispatch("n", <<>>)
    \/ \E ops \in GrayOperands : Len(history) < MaxOps /\ Dispatch("g", ops)
    \/ \E ops \in GrayOperands : Len(history) < MaxOps /\ Dispatch("G", ops)
    \/ \E ops \in RgbOperands : Len(history) < MaxOps /\ Dispatch("rg", ops)
    \/ \E ops \in RgbOperands : Len(history) < MaxOps /\ Dispatch("RG", ops)
    \/ \E ops \in CmykOperands : Len(history) < MaxOps /\ Dispatch("k", ops)
    \/ \E ops \in CmykOperands : Len(history) < MaxOps /\ Dispatch("K", ops)
    \/ \E ops \in NumberOperands : Len(history) < MaxOps /\ Dispatch("Tc", ops)
    \/ \E ops \in NumberOperands : Len(history) < MaxOps /\ Dispatch("Tw", ops)
    \/ \E ops \in NumberOperands : Len(history) < MaxOps /\ Dispatch("TL", ops)
    \/ \E ops \in NumberOperands : Len(history) < MaxOps /\ Dispatch("Ts", ops)
    \/ \E ops \in FontOperands : Len(history) < MaxOps /\ Dispatch("Tf", ops)
    \/ Len(history) < MaxOps /\ Dispatch("BT", <<>>)
    \/ \E ops \in TmOperands : Len(history) < MaxOps /\ Dispatch("Tm", ops)
    \/ \E ops \in TdOperands : Len(history) < MaxOps /\ Dispatch("Td", ops)
    \/ \E ops \in TdOperands : Len(history) < MaxOps /\ Dispatch("TD", ops)
    \/ Len(history) < MaxOps /\ Dispatch("T*", <<>>)
    \/ \E ops \in TjOperands : Len(history) < MaxOps /\ Dispatch("Tj", ops)
    \/ \E ops \in TJOperands : Len(history) < MaxOps /\ Dispatch("TJ", ops)
    \/ \E ops \in QuoteOperands : Len(history) < MaxOps /\ Dispatch("'", ops)
    \/ \E ops \in DquoteOperands : Len(history) < MaxOps /\ Dispatch("\"", ops)
    \/ \E op \in UnknownOperators, ops \in UnknownOperands :
          Len(history) < MaxOps /\ Dispatch(op, ops)

Spec == Init /\ [][Next]_vars

(***************************************************************************)
(* SpecGraphics: graphics state, path construction and painting on longer  *)
(* streams of well-formed operators                                        *)
(***************************************************************************)
NextGraphics ==
    \/ Len(history) < MaxGraphicsOps /\ Dispatch("q", <<>>)
    \/ Len(history) < MaxGraphicsOps /\ Dispatch("Q", <<>>)
    \/ \E ops \in GraphicsCm : Len(history) < MaxGraphicsOps /\ Dispatch("cm", ops)
    \/ Len(history) < MaxGraphicsOps /\ Dispatch("w", <<Integer(3)>>)
    \/ \E ops \in GraphicsPoint : Len(history) < MaxGraphicsOps /\ Dispatch("m", ops)
    \/ Len(history) < MaxGraphicsOps /\ Dispatch("l", Ints(<<3, 1>>))
    \/ Len(history) < MaxGraphicsOps /\ Dispatch("c", Ints(<<1, 1, 2, 3, 4, 2>>))
    \/ Len(history) < MaxGraphicsOps /\ Dispatch("v", Ints(<<2, 3, 4, 2>>))
    \/ Len(history) < MaxGraphicsOps /\ Dispatch("y", Ints(<<1, 1, 4, 2>>))
    \/ Len(history) < MaxGraphicsOps /\ Dispatch("h", <<>>)
    \/ \E ops \in GraphicsRect : Len(history) < MaxGraphicsOps /\ Dispatch("re", ops)
    \/ Len(history) < MaxGraphicsOps /\ Dispatch("S", <<>>)
    \/ Len(history) < MaxGraphicsOps /\ Dispatch("f", <<>>)
    \/ Len(history) < MaxGraphicsOps /\ Dispatch("b", <<>>)
    \/ Len(history) < MaxGraphicsOps /\ Dispatch("rg", Ints(<<1, 0, 0>>))
    \/ Len(history) < MaxGraphicsOps /\ Dispatch("RG", Ints(<<0, 1, 0>>))
    \/ Len(history) < MaxGraphicsOps /\ Dispatch("Tc", <<Integer(2)>>)
    \/ Len(history) < MaxGraphicsOps /\ Dispatch("Tw", <<Integer(3)>>)
    \/ Len(history) < MaxGraphicsOps /\ Dispatch("Ts", <<Integer(4)>>)
    \/ Len(history) < MaxGraphicsOps /\ Dispatch("Tf", <<Name(str_F1), Integer(10)>>)
    \/ Len(history) < MaxGraphicsOps /\ Dispatch("Tm", Ints(<<1, 0, 0, 1, 3, 4>>))
    \/ Len(history) < MaxGraphicsOps /\ Dispatch("TD", Ints(<<2, 5>>))

SpecGraphics == Init /\ [][NextGraphics]_vars

(***************************************************************************)
(* SpecRect: save, scale, rectangle, paint, restore                        *)
(***************************************************************************)
NextRect ==
    \/ Len(history) < MaxRectOps /\ Dispatch("q", <<>>)
    \/ Len(history) < MaxRectOps /\ Dispatch("Q", <<>>)
    \/ \E ops \in RectCm : Len(history) < MaxRectOps /\ Dispatch("cm", ops)
    \/ \E ops \in RectRe : Len(history) < MaxRectOps /\ Dispatch("re", ops)
    \/ Len(history) < MaxRectOps /\ Dispatch("S", <<>>)
    \/ Len(history) < MaxRectOps /\ Dispatch("f", <<>>)

SpecRect == Init /\ [][NextRect]_vars

(***************************************************************************)
(* SpecPaint: colour operators, path construction and every paint operator *)
(***************************************************************************)
NextPaint ==
    \/ Len(history) < MaxPaintOps /\ Dispatch("q", <<>>)
    \/ Len(history) < MaxPaintOps /\ Dispatch("Q", <<>>)
    \/ Len(history) < MaxPaintOps /\ Dispatch("m", Ints(<<1, 2>>))
    \/ Len(history) < MaxPaintOps /\ Dispatch("re", Ints(<<1, 2, 3, 4>>))
    \/ Len(history) < MaxPaintOps /\ Dispatch("S", <<>>)
    \/ Len(history) < MaxPaintOps /\ Dispatch("s", <<>>)
    \/ \E op \in {"f", "F", "f*"} : Len(history) < MaxPaintOps /\ Dispatch(op, <<>>)
    \/ \E op \in {"B", "B*"} : Len(history) < MaxPaintOps /\ Dispatch(op, <<>>)
    \/ \E op \in {"b", "b*"} : Len(history) < MaxPaintOps /\ Dispatch(op, <<>>)
    \/ Len(history) < MaxPaintOps /\ Dispatch("g", <<Integer(1)>>)
    \/ Len(history) < MaxPaintOps /\ Dispatch("G", <<Integer(1)>>)
    \/ Len(history) < MaxPaintOps /\ Dispatch("rg", Ints(<<1, 0, 0>>))
    \/ Len(history) < MaxPaintOps /\ Dispatch("RG", Ints(<<0, 1, 0>>))
    \/ \E ops \in PaintCmyk : Len(history) < MaxPaintOps /\ Dispatch("k", ops)
    \/ \E ops \in PaintCmyk : Len(history) < MaxPaintOps /\ Dispatch("K", ops)

SpecPaint == Init /\ [][NextPaint]_vars

(***************************************************************************)
(* SpecText: text state, text positioning and the text-showing operators   *)
(* on strings in every encoding                                            *)
(***************************************************************************)
NextText ==
    \/ Len(history) < MaxTextOps /\ Dispatch("cm", Ints(<<2, 0, 0, 2, 0, 0>>))
    \/ Len(history) < MaxTextOps /\ Dispatch("Tf", <<Name(str_F1), Integer(10)>>)
    \/ Len(history) < MaxTextOps /\ Dispatch("TL", <<Integer(2)>>)
    \/ Len(history) < MaxTextOps /\ Dispatch("BT", <<>>)
    \/ Len(history) < MaxTextOps /\ Dispatch("Tm", Ints(<<2, 1, 0, 3, 3, 4>>))
    \/ \E ops \in TextTd : Len(history) < MaxTextOps /\ Dispatch("Td", ops)
    \/ \E ops \in TextTj : Len(history) < MaxTextOps /\ Dispatch("Tj", ops)
    \/ \E ops \in TextTJ : Len(history) < MaxTextOps /\ Dispatch("TJ", ops)
    \/ \E ops \in TextQuote : Len(history) < MaxTextOps /\ Dispatch("'", ops)
    \/ \E ops \in TextDquote : Len(history) < MaxTextOps /\ Dispatch("\"", ops)

SpecText == Init /\ [][NextText]_vars

(***************************************************************************)
(* SpecLayers: paths and texts emitted in any order, then made into layers *)
(***************************************************************************)
NextLayers ==
    \/ Len(history) < MaxLayerOps /\ Dispatch("re", Ints(<<1, 2, 3, 4>>))
    \/ Len(history) < MaxLayerOps /\ Dispatch("S", <<>>)
    \/ Len(history) < MaxLayerOps /\ Dispatch("f", <<>>)
    \/ Len(history) < MaxLayerOps /\ Dispatch("Tf", <<Name(str_subset_font), Integer(10)>>)
    \/ Len(history) < MaxLayerOps /\ Dispatch("Tj", <<String(str_Hi)>>)
    \/ Len(history) < MaxLayerOps
          /\ Dispatch("TJ", <<Array(<<String(str_Hello), Integer(-250), String(str_World)>>)>>)
    \/ Do_to_layer_objects(PageIndexes)

SpecLayers == Init /\ [][NextLayers]_vars

(***************************************************************************)
(* SpecPosition: a text object from BT to the shown string, under a CTM    *)
(* that scales and moves                                                   *)
(***************************************************************************)
\* longest operator stream of a page under SpecPosition
MaxPositionOps == 4

\* strings shown under SpecPosition: two texts of different width and a blank one
PositionTj == {<<String(str_Hi)>>, <<String(str_Hello)>>, <<String(str_space)>>}

NextPosition ==
    \/ Len(history) < MaxPositionOps /\ Dispatch("cm", Ints(<<2, 0, 0, 2, 1, 0>>))
    \/ Len(history) < MaxPositionOps /\ Dispatch("BT", <<>>)
    \/ Len(history) < MaxPositionOps /\ Dispatch("Tf", <<Name(str_F1), Integer(10)>>)
    \/ Len(history) < MaxPositionOps /\ Dispatch("Ts", <<Integer(3)>>)
    \/ Len(history) < MaxPositionOps /\ Dispatch("Td", Ints(<<2, 5>>))
    \/ \E ops \in PositionTj : Len(history) < MaxPositionOps /\ Dispatch("Tj", ops)
    \/ Len(history) < MaxPositionOps
           /\ Dispatch("TJ", <<Array(<<String(str_Hello), Integer(-250), String(str_World)>>)>>)

SpecPosition == Init /\ [][NextPosition]_vars

(***************************************************************************)
(* SpecMatrix: TransformMatrix computations on drawn inputs                *)
(***************************************************************************)
InitMatrix ==
    /\ ctx = ParseContext_new(100)
    /\ history = <<>>
    /\ layers = None
    /\ pages = <<>>
    /\ \E self \in Matrices, other \in Matrices, p \in Coords :
          mat = [pc |-> "start", self |-> self, other |-> other, x |-> p[1], y |-> p[2],
                 product |-> None, point |-> None, via_product |-> None, via_steps |-> None]

\* self.multiply(&other)
Mat_multiply ==
    /\ mat.pc = "start"
    /\ mat' = [mat EXCEPT !.pc = "multiplied", !.product = Some(multiply(mat.self, mat.other))]
    /\ UNCHANGED <<ctx, history, layers, pages>>

\* self.multiply(&other).transform_point(x, y)
Mat_transform_by_product ==
    /\ mat.pc = "multiplied"
    /\ mat' = [mat EXCEPT !.pc = "product_applied",
                          !.via_product = Some(transform_point(mat.product[1], mat.x, mat.y))]
    /\ UNCHANGED <<ctx, history, layers, pages>>

\* self.transform_point(x, y)
Mat_transform_by_self ==
    /\ mat.pc = "product_applied"
    /\ mat' = [mat EXCEPT !.pc = "self_applied",
                          !.point = Some(transform_point(mat.self, mat.x, mat.y))]
    /\ UNCHANGED <<ctx, history, layers, pages>>

\* other.transform_point applied to the point self.transform_point returned
Mat_transform_by_other ==
    /\ mat.pc = "self_applied"
    /\ mat' = [mat EXCEPT !.pc = "done",
                          !.via_steps = Some(transform_point(mat.other, mat.point[1][1],
                                                             mat.point[1][2]))]
    /\ UNCHANGED <<ctx, history, layers, pages>>

\* TransformMatrix::identity().multiply(&self)
Mat_identity_left ==
    /\ mat.pc = "start"
    /\ mat' = [mat EXCEPT !.pc = "identity_left", !.product = Some(multiply(identity, mat.self))]
    /\ UNCHANGED <<ctx, history, layers, pages>>

\* self.multiply(&TransformMatrix::identity())
Mat_identity_right ==
    /\ mat.pc = "start"
    /\ mat' = [mat EXCEPT !.pc = "identity_right", !.product = Some(multiply(mat.self, identity))]
    /\ UNCHANGED <<ctx, history, layers, pages>>

NextMatrix ==
    \/ Mat_multiply
    \/ Mat_transform_by_product
    \/ Mat_transform_by_self
    \/ Mat_transform_by_other
    \/ Mat_identity_left
    \/ Mat_identity_right

SpecMatrix == InitMatrix /\ [][NextMatrix]_vars

(***************************************************************************)
(* parse_page_content: the whole call, and the call as the work of one     *)
(* worker of a pool, a step at a time.  A page record holds what the call  *)
(* owns: its operations, its page height, its ParseContext and the         *)
(* position of its loop.                                                   *)
(***************************************************************************)
Operation(operator, operands) == [operator |-> operator, operands |-> operands]

\* `for op in &content.operations { ctx.process_operator(..) }`, from operation i on
RECURSIVE process_operations(_, _, _)
process_operations(c, operations, i) ==
    IF i > Len(operations)
    THEN c
    ELSE process_operations(
             process_operator(c, operations[i].operator, operations[i].operands),
             operations, i + 1)

\* let mut ctx = ParseContext::new(page_height); the loop; Ok((ctx.texts, ctx.paths))
parse_page_content(operations, page_height) ==
    LET c == process_operations(ParseContext_new(page_height), operations, 1)
    IN  <<c.texts, c.paths>>

\* a call that has constructed its context and is about to enter the loop
Page(operations, page_height) ==
    [operations  |-> operations,
     page_height |-> page_height,
     ctx         |-> ParseContext_new(page_height),
     next        |-> 1,
     dispatched  |-> <<>>,
     returned    |-> None]

\* the iterator over content.operations is exhausted
finished_early(pg) == pg.next >= Len(pg.operations)

finished(pg) == pg.next > Len(pg.operations)

\* one turn of the loop of page p: the operator at the loop's position is dispatched on
\* the page's own context
process_next_shared_buffer(ps, p) ==
    LET pg == ps[p]
        op == pg.operations[pg.next]
        c  == process_operator(pg.ctx, op.operator, op.operands)
    IN  [q \in DOMAIN ps |->
            IF q = p
            THEN [pg EXCEPT !.ctx = c, !.next = pg.next + 1,
                            !.dispatched = Append(pg.dispatched, op)]
            ELSE [ps[q] EXCEPT !.ctx.current_path = c.current_path]]

process_next(ps, p) ==
    LET pg == ps[p]
        op == pg.operations[pg.next]
    IN  [ps EXCEPT ![p] = [pg EXCEPT !.ctx = process_operator(pg.ctx, op.operator, op.operands),
                                     !.next = pg.next + 1,
                                     !.dispatched = Append(pg.dispatched, op)]]

Page_process_operator(p) ==
    /\ pages[p].returned = None
    /\ ~finished(pages[p])
    /\ pages' = process_next(pages, p)
    /\ UNCHANGED <<ctx, history, mat, layers>>

\* Ok((ctx.texts, ctx.paths))
Page_return(p) ==
    /\ pages[p].returned = None
    /\ finished(pages[p])
    /\ pages' = [pages EXCEPT ![p].returned = Some(<<pages[p].ctx.texts, pages[p].ctx.paths>>)]
    /\ UNCHANGED <<ctx, history, mat, layers>>

\* longest operator stream of a page under SpecPages
MaxPageOps == 2

\* longest operator stream of the page under SpecStream
MaxStreamOps == 3

\* every stream of at most n of the operations
Streams(operations, n) == UNION {[1..k -> operations] : k \in 0..n}

PageOperations ==
    {Operation("m", Ints(<<1, 2>>)), Operation("l", Ints(<<3, 1>>)), Operation("S", <<>>),
     Operation("Tj", <<String(str_Hi)>>)}

StreamOperations ==
    {Operation("q", <<>>), Operation("cm", Ints(<<2, 0, 0, 2, 0, 0>>)),
     Operation("m", Ints(<<1, 2>>)), Operation("l", Ints(<<3, 1>>)),
     Operation("S", <<>>), Operation("Do", <<Name(str_F1)>>)}

(***************************************************************************)
(* SpecPages: two pages interpreted by two workers, their steps in any     *)
(* order                                                                   *)
(***************************************************************************)
InitPages ==
    /\ ctx = ParseContext_new(100)
    /\ history = <<>>
    /\ mat = MatIdle
    /\ layers = None
    /\ \E first \in Streams(PageOperations, MaxPageOps),
          second \in Streams(PageOperations, MaxPageOps) :
          pages = <<Page(first, 100), Page(second, 7)>>

NextPages ==
    \/ \E p \in DOMAIN pages : Page_process_operator(p)
    \/ \E p \in DOMAIN pages : Page_return(p)

SpecPages == InitPages /\ [][NextPages]_vars

(***************************************************************************)
(* SpecStream: one page, from its first operator to the return.  The       *)
(* worker that runs the call keeps running it.                             *)
(***************************************************************************)
InitStream ==
    /\ ctx = ParseContext_new(100)
    /\ history = <<>>
    /\ mat = MatIdle
    /\ layers = None
    /\ \E operations \in Streams(StreamOperations, MaxStreamOps), h \in PageHeights :
          pages = <<Page(operations, h)>>

SpecStream == InitStream /\ [][NextPages]_vars /\ WF_vars(NextPages)

(***************************************************************************)
(* Reading the run                                                         *)
(***************************************************************************)
NumOps == Len(history)

\* the context the k-th operator was dispatched on, and the one it left
Before(k) == history[k].before

After(k) == IF k = Len(history) THEN ctx ELSE history[k + 1].before

Depth(c) == Len(c.state_stack)

\* operators that write a field of the top GraphicsState
StateSetting ==
    {"cm", "w", "g", "G", "rg", "RG", "k", "K", "Tc", "Tw", "TL", "Ts", "Tf",
     "BT", "Tm", "Td", "TD", "T*", "'", "\""}

\* paint operators that emit a path, and all paint operators
EmittingPaint == {"S", "s", "f", "F", "f*", "B", "B*", "b", "b*"}

PaintOperators == EmittingPaint \cup {"n"}

ClosingPaint == {"s", "b", "b*"}

AllNumeric(ops, n) == Len(ops) >= n /\ \A i \in 1..n : ops[i].kind \in {"Integer", "Real"}

\* C1: in every reachable state of a page interpretation, whatever operators were
\* dispatched, the graphics-state stack holds at least one entry.
C1_StackNeverEmpty ==
    /\ Depth(ctx) >= 1
    /\ \A k \in 1..NumOps : Depth(Before(k)) >= 1

\* an excess Q has been dispatched: Q on a stack of depth 1
C1_Witness ==
    /\ NumOps = 2
    /\ history[1].operator = "Q"
    /\ history[2].operator = "Q"
    /\ Depth(ctx) = 1

\* C2: a Q dispatched at stack depth 1 changes nothing: the depth stays 1 and the top
\* state is what it was; if no state-setting operator ran before it, the top state is
\* the default state.
C2_UnbalancedQIsNoOp ==
    \A k \in 1..NumOps :
        (history[k].operator = "Q" /\ Depth(Before(k)) = 1) =>
            /\ Depth(After(k)) = 1
            /\ state(After(k)) = state(Before(k))
            /\ After(k) = Before(k)
            /\ (\A i \in 1..(k - 1) : history[i].operator \notin StateSetting)
                   => state(After(k)) = GraphicsState_default

\* an unbalanced Q dispatched after an operator that changed the top state
C2_Witness ==
    /\ NumOps = 2
    /\ history[1].operator \in StateSetting
    /\ state(Before(2)) # GraphicsState_default
    /\ history[2].operator = "Q"
    /\ Depth(Before(2)) = 1

\* the Q at position j pops the entry the q at position i pushed
MatchingSaveRestore(i, j) ==
    /\ i < j
    /\ history[i].operator = "q"
    /\ history[j].operator = "Q"
    /\ Depth(Before(j)) = Depth(Before(i)) + 1
    /\ \A k \in (i + 1)..j : Depth(Before(k)) >= Depth(Before(i)) + 1

\* C3: the top state right after a Q that pops equals, in every field, the top state
\* right before the matching q, whatever ran in between.
C3_RestoreGivesSavedState ==
    \A i \in 1..NumOps : \A j \in 1..NumOps :
        MatchingSaveRestore(i, j) =>
            /\ Depth(After(j)) = Depth(Before(i))
            /\ state(After(j)) = state(Before(i))

\* a q, then an operator that changed the top state, then the matching Q
C3_Witness ==
    /\ NumOps = 3
    /\ MatchingSaveRestore(1, 3)
    /\ history[2].operator \in StateSetting
    /\ state(Before(3)) # state(Before(1))

\* C4: every cm with six operands replaces the CTM by CTM.multiply(M); after
\* `cm M1; cm M2` on a fresh context the CTM is identity.multiply(M1).multiply(M2),
\* which is not the product in the other order when M1 and M2 do not commute.
C4_CmComposesInOrder ==
    /\ \A k \in 1..NumOps :
          (history[k].operator = "cm" /\ Len(history[k].operands) >= 6) =>
              state(After(k)).ctm =
                  multiply(state(Before(k)).ctm, parse_matrix(history[k].operands))
    /\ (/\ NumOps >= 2
        /\ history[1].operator = "cm" /\ Len(history[1].operands) >= 6
        /\ history[2].operator = "cm" /\ Len(history[2].operands) >= 6) =>
          LET M1 == parse_matrix(history[1].operands)
              M2 == parse_matrix(history[2].operands)
          IN  /\ state(After(2)).ctm = multiply(multiply(identity, M1), M2)
              /\ multiply(M1, M2) # multiply(M2, M1)
                    => state(After(2)).ctm # multiply(multiply(identity, M2), M1)

\* two cm operators whose matrices do not commute
C4_Witness ==
    /\ NumOps = 2
    /\ history[1].operator = "cm" /\ Len(history[1].operands) >= 6
    /\ history[2].operator = "cm" /\ Len(history[2].operands) >= 6
    /\ multiply(parse_matrix(history[1].operands), parse_matrix(history[2].operands))
          # multiply(parse_matrix(history[2].operands), parse_matrix(history[1].operands))

\* C5: transforming a point by A.multiply(B) gives what B.transform_point gives on the
\* point A.transform_point returned: self acts first, then other.
C5_ProductAppliesSelfThenOther ==
    mat.pc = "done" => mat.via_product = mat.via_steps

\* both ways computed for two matrices that do not commute
C5_Witness ==
    /\ mat.pc = "done"
    /\ multiply(mat.self, mat.other) # multiply(mat.other, mat.self)
    /\ transform_point(mat.other, mat.x, mat.y) # transform_point(mat.self, mat.x, mat.y)

\* C6: identity().multiply(M) = M and M.multiply(identity()) = M for every matrix M.
C6_IdentityIsNeutral ==
    mat.pc \in {"identity_left", "identity_right"} => mat.product = Some(mat.self)

\* the identity multiplied from the left onto a matrix with rotation, scale and translation
C6_Witness ==
    /\ mat.pc = "identity_left"
    /\ mat.self = TransformMatrix(2, 1, -1, 3, 5, -2)

\* the page flip of one command: every coordinate (X, Y) becomes (X, H - Y)
Flipped(cmd, H) ==
    CASE cmd.type = "MoveTo" -> MoveTo(cmd.x, H - cmd.y)
      [] cmd.type = "LineTo" -> LineTo(cmd.x, H - cmd.y)
      [] cmd.type = "CurveTo" ->
            CurveTo(cmd.x1, H - cmd.y1, cmd.x2, H - cmd.y2, cmd.x, H - cmd.y)
      [] OTHER -> ClosePath

\* the y coordinates of a command
YsOf(cmd) ==
    CASE cmd.type \in {"MoveTo", "LineTo"} -> <<cmd.y>>
      [] cmd.type = "CurveTo" -> <<cmd.y1, cmd.y2, cmd.y>>
      [] OTHER -> <<>>

\* the buffer the paint operator at position k paints, in user space
PaintedBuffer(k) ==
    IF history[k].operator \in ClosingPaint
    THEN Append(Before(k).current_path, ClosePath)
    ELSE Before(k).current_path

\* the k-th operator appended one path to the output list
Emitted(k) == Len(After(k).paths) = Len(Before(k).paths) + 1

LastPath(c) == c.paths[Len(c.paths)]

\* C7: under the identity CTM every coordinate (X, Y) of the painted buffer, endpoints
\* and control points alike, is emitted as (X, H - Y): the flip is applied once, so
\* wherever H - Y differs from Y the emitted y is not Y again.
C7_FlipAppliedOnce ==
    \A k \in 1..NumOps :
        (/\ history[k].operator \in EmittingPaint
         /\ Emitted(k)
         /\ state(Before(k)).ctm = identity) =>
            LET raw == PaintedBuffer(k)
                out == LastPath(After(k)).commands
                H   == Before(k).page_height
            IN  /\ Len(out) = Len(raw)
                /\ \A i \in 1..Len(raw) :
                      /\ out[i] = Flipped(raw[i], H)
                      /\ \A n \in 1..Len(YsOf(raw[i])) :
                            H - YsOf(raw[i])[n] # YsOf(raw[i])[n]
                                => YsOf(out[i])[n] # YsOf(raw[i])[n]

\* a path with a Bezier curve painted under the identity CTM
C7_Witness ==
    /\ NumOps = 3
    /\ history[3].operator \in EmittingPaint
    /\ Emitted(3)
    /\ state(Before(3)).ctm = identity
    /\ \E i \in 1..Len(Before(3).current_path) : Before(3).current_path[i].type = "CurveTo"
    /\ \E i \in 1..Len(Before(3).current_path) : Before(3).current_path[i].type = "MoveTo"

\* a user-space point through the CTM and the page flip
ToOutput(c, x, y) ==
    LET t == transform_point(state(c).ctm, x, y)
    IN  <<t[1], c.page_height - t[2]>>

\* C8: `re x y w h` on an empty buffer, followed at once by S, emits one path of the
\* five commands MoveTo, LineTo, LineTo, LineTo, ClosePath through the corners (x,y),
\* (x+w,y), (x+w,y+h), (x,y+h), each taken through the CTM and the page flip.
C8_RectangleThenStroke ==
    \A k \in 1..(NumOps - 1) :
        (/\ history[k].operator = "re"
         /\ AllNumeric(history[k].operands, 4)
         /\ Before(k).current_path = <<>>
         /\ history[k + 1].operator = "S") =>
            LET x  == history[k].operands[1].val
                y  == history[k].operands[2].val
                w  == history[k].operands[3].val
                h  == history[k].operands[4].val
                c  == Before(k + 1)
                p1 == ToOutput(c, x, y)
                p2 == ToOutput(c, x + w, y)
                p3 == ToOutput(c, x + w, y + h)
                p4 == ToOutput(c, x, y + h)
            IN  /\ After(k).current_path =
                      <<MoveTo(x, y), LineTo(x + w, y), LineTo(x + w, y + h),
                        LineTo(x, y + h), ClosePath>>
                /\ Emitted(k + 1)
                /\ LastPath(After(k + 1)).commands =
                      <<MoveTo(p1[1], p1[2]), LineTo(p2[1], p2[2]), LineTo(p3[1], p3[2]),
                        LineTo(p4[1], p4[2]), ClosePath>>
                /\ After(k + 1).current_path = <<>>

\* a rectangle stroked under a CTM that is not the identity
C8_Witness ==
    /\ NumOps = 3
    /\ history[1].operator = "cm"
    /\ history[2].operator = "re"
    /\ history[3].operator = "S"
    /\ state(Before(3)).ctm # identity
    /\ Len(ctx.paths) = 1

\* the stream q; cm [s 0 0 s 0 0]; re [x y w h]; f; Q with s > 0, on a fresh context
IsScaledRectStream ==
    /\ NumOps = 5
    /\ history[1].operator = "q"
    /\ history[2].operator = "cm"
    /\ Len(history[2].operands) >= 6
    /\ parse_matrix(history[2].operands).a > 0
    /\ parse_matrix(history[2].operands) =
          scale(parse_matrix(history[2].operands).a, parse_matrix(history[2].operands).a)
    /\ history[3].operator = "re"
    /\ AllNumeric(history[3].operands, 4)
    /\ history[4].operator = "f"
    /\ history[5].operator = "Q"

\* one filled path and no text
OneFilledPath ==
    /\ Len(ctx.paths) = 1
    /\ ctx.texts = <<>>
    /\ ctx.paths[1].fill_color = Some(GraphicsState_default.fill_color)
    /\ ctx.paths[1].stroke_color = None

\* the box s*x, H - s*(y+h), s*w, s*h of the scaled rectangle
ScaledRectBox ==
    LET s == parse_matrix(history[2].operands).a
        x == history[3].operands[1].val
        y == history[3].operands[2].val
        w == history[3].operands[3].val
        h == history[3].operands[4].val
    IN  Bounds(s * x, ctx.page_height - s * (y + h), s * w, s * h)

\* C9 as stated: the stream q; cm [s 0 0 s 0 0]; re [x y w h]; f; Q yields one filled,
\* unstroked path and no text, with box x = s*x, y = H - s*(y+h), width = s*w,
\* height = s*h, for every rectangle.
C9_Original_BoxOfAnyRectangle ==
    IsScaledRectStream => (OneFilledPath /\ ctx.paths[1].bounds = ScaledRectBox)

\* C9 amended: the same for rectangles with w > 0, h > 0, s*w >= 1 and s*h >= 1; the
\* stream with s = 2, re [0 0 10 10] and H = 100 gives the box 0, 80, 20, 20.
C9_BoxOfScaledRectangle ==
    IsScaledRectStream =>
        /\ OneFilledPath
        /\ LET s == parse_matrix(history[2].operands).a
               w == history[3].operands[3].val
               h == history[3].operands[4].val
           IN  (w > 0 /\ h > 0 /\ s * w >= 1 /\ s * h >= 1)
                   => ctx.paths[1].bounds = ScaledRectBox
        /\ (/\ history[2].operands = Ints(<<2, 0, 0, 2, 0, 0>>)
            /\ history[3].operands = Ints(<<0, 0, 10, 10>>)
            /\ ctx.page_height = 100) => ctx.paths[1].bounds = Bounds(0, 80, 20, 20)

\* the stream q; cm [2 0 0 2 0 0]; re [0 0 10 10]; f; Q on a page of height 100
C9_Witness ==
    /\ IsScaledRectStream
    /\ history[2].operands = Ints(<<2, 0, 0, 2, 0, 0>>)
    /\ history[3].operands = Ints(<<0, 0, 10, 10>>)
    /\ ctx.page_height = 100
    /\ Len(ctx.paths) = 1

\* C10: a paint operator (S, s, f, F, f*, B, B*, b, b*, n) dispatched on an empty path
\* buffer appends no path to the output list.
C10_EmptyBufferEmitsNothing ==
    \A k \in 1..NumOps :
        (history[k].operator \in PaintOperators /\ Before(k).current_path = <<>>)
            => After(k).paths = Before(k).paths

\* C11: the colours of an emitted path are those of the top state when the paint
\* operator is dispatched: S and s emit the stroke colour and no fill; f, F and f* emit
\* the fill colour and no stroke; B, B*, b and b* emit both.
C11_PaintChoosesColors ==
    \A k \in 1..NumOps :
        (history[k].operator \in EmittingPaint /\ Emitted(k)) =>
            /\ history[k].operator \in {"S", "s"} =>
                  /\ LastPath(After(k)).stroke_color = Some(state(Before(k)).stroke_color)
                  /\ LastPath(After(k)).fill_color = None
            /\ history[k].operator \in {"f", "F", "f*"} =>
                  /\ LastPath(After(k)).fill_color = Some(state(Before(k)).fill_color)
                  /\ LastPath(After(k)).stroke_color = None
            /\ history[k].operator \in {"B", "B*", "b", "b*"} =>
                  /\ LastPath(After(k)).stroke_color = Some(state(Before(k)).stroke_color)
                  /\ LastPath(After(k)).fill_color = Some(state(Before(k)).fill_color)

\* a fill colour set, a rectangle built, and the path filled and stroked while the two
\* current colours differ
C11_Witness ==
    /\ NumOps = 3
    /\ history[1].operator \in {"rg", "k", "g"}
    /\ history[2].operator = "re"
    /\ history[3].operator \in {"B", "B*"}
    /\ state(Before(3)).fill_color # state(Before(3)).stroke_color
    /\ Len(ctx.paths) = 1

\* the colour [(1-c)(1-k), (1-m)(1-k), (1-y)(1-k), 1] of four CMYK operands
CmykColor(ops) ==
    <<(1 - ops[1].val) * (1 - ops[4].val),
      (1 - ops[2].val) * (1 - ops[4].val),
      (1 - ops[3].val) * (1 - ops[4].val),
      1>>

\* C14: `k c m y k` sets the fill colour to ((1-c)(1-k), (1-m)(1-k), (1-y)(1-k), 1) and
\* leaves the stroke colour alone; K does the same to the stroke colour and leaves the
\* fill colour alone; 0 0 0 1 gives (0,0,0) and 0 0 0 0 gives (1,1,1).
C14_CmykToRgb ==
    \A k \in 1..NumOps :
        /\ (history[k].operator = "k" /\ AllNumeric(history[k].operands, 4)) =>
              /\ state(After(k)).fill_color = CmykColor(history[k].operands)
              /\ state(After(k)).stroke_color = state(Before(k)).stroke_color
              /\ history[k].operands = Ints(<<0, 0, 0, 1>>)
                    => state(After(k)).fill_color = <<0, 0, 0, 1>>
              /\ history[k].operands = Ints(<<0, 0, 0, 0>>)
                    => state(After(k)).fill_color = <<1, 1, 1, 1>>
        /\ (history[k].operator = "K" /\ AllNumeric(history[k].operands, 4)) =>
              /\ state(After(k)).stroke_color = CmykColor(history[k].operands)
              /\ state(After(k)).fill_color = state(Before(k)).fill_color
              /\ history[k].operands = Ints(<<0, 0, 0, 1>>)
                    => state(After(k)).stroke_color = <<0, 0, 0, 1>>
              /\ history[k].operands = Ints(<<0, 0, 0, 0>>)
                    => state(After(k)).stroke_color = <<1, 1, 1, 1>>

\* white set as the fill colour, then pure black as the stroke colour over it
C14_Witness ==
    /\ NumOps = 3
    /\ history[1].operator = "G"
    /\ history[2].operator = "k"
    /\ history[2].operands = Ints(<<0, 0, 0, 0>>)
    /\ history[3].operator = "K"
    /\ history[3].operands = Ints(<<0, 0, 0, 1>>)
    /\ state(ctx).fill_color = <<1, 1, 1, 1>>
    /\ state(ctx).stroke_color = <<0, 0, 0, 1>>

\* the k-th operator appended one record to the text list
TextEmitted(k) == Len(After(k).texts) = Len(Before(k).texts) + 1

LastText(c) == c.texts[Len(c.texts)]

IsNumber(obj) == obj.kind \in {"Integer", "Real"}

\* a TJ operand list whose array holds numbers and UTF-8 strings only
PlainArray(ops) ==
    /\ Len(ops) >= 1
    /\ ops[1].kind = "Array"
    /\ \A i \in 1..Len(ops[1].val) :
          \/ IsNumber(ops[1].val[i])
          \/ ops[1].val[i].kind = "String" /\ is_some(from_utf8(ops[1].val[i].val))

\* the strings of the array from element i on, in order, with one space for each number
\* below -100 and nothing for any other number
RECURSIVE Joined(_, _)
Joined(array, i) ==
    IF i > Len(array) THEN <<>>
    ELSE (IF array[i].kind = "String" THEN from_utf8(array[i].val)[1]
          ELSE IF array[i].val < -100 THEN str_space ELSE <<>>) \o Joined(array, i + 1)

\* C12: the text of a TJ array is the concatenation of its string elements in order,
\* with one space at each numeric element below -100 and nothing at a numeric element
\* of -100 or more: ["Hello", -250, "World"] gives "Hello World", ["Hello", -50, "World"]
\* and ["Hello", -100, "World"] give "HelloWorld".
C12_TJConcatenates ==
    \A k \in 1..NumOps :
        (history[k].operator = "TJ" /\ PlainArray(history[k].operands)) =>
            /\ ~trim_is_empty(Joined(history[k].operands[1].val, 1)) =>
                  /\ TextEmitted(k)
                  /\ LastText(After(k)).text = Joined(history[k].operands[1].val, 1)
            /\ history[k].operands[1].val
                    = <<String(str_Hello), Integer(-250), String(str_World)>> =>
                  /\ TextEmitted(k)
                  /\ LastText(After(k)).text = str_Hello \o <<32>> \o str_World
            /\ history[k].operands[1].val
                    \in {<<String(str_Hello), Integer(-50), String(str_World)>>,
                         <<String(str_Hello), Integer(-100), String(str_World)>>} =>
                  /\ TextEmitted(k)
                  /\ LastText(After(k)).text = str_Hello \o str_World

\* ["Hello", -250, "World"] shown, then ["Hello", -100, "World"]
C12_Witness ==
    /\ NumOps = 2
    /\ history[1].operator = "TJ"
    /\ history[1].operands[1].val = <<String(str_Hello), Integer(-250), String(str_World)>>
    /\ history[2].operator = "TJ"
    /\ history[2].operands[1].val = <<String(str_Hello), Integer(-100), String(str_World)>>
    /\ Len(ctx.texts) = 2
    /\ Len(ctx.texts[1].text) = 11
    /\ Len(ctx.texts[2].text) = 10

TextShowing == {"Tj", "TJ", "'", "\""}

\* the text the text-showing operator at position k resolves its operands to, if any
ResolvedText(k) ==
    CASE history[k].operator \in {"Tj", "'"} -> extract_string(history[k].operands, 0)
      [] history[k].operator = "\"" ->
            IF Len(history[k].operands) >= 3 THEN extract_string(history[k].operands, 2) ELSE None
      [] OTHER ->
            IF Len(history[k].operands) >= 1 /\ history[k].operands[1].kind = "Array"
            THEN Some(TJ_combined(history[k].operands[1].val, 1, <<>>))
            ELSE None

\* C13: a text-showing operator (Tj, TJ, ', ") whose resolved text is empty or all
\* whitespace appends no text record; so it is for a TJ array that holds nothing but
\* adjustments below -100.
C13_BlankTextNotEmitted ==
    \A k \in 1..NumOps :
        history[k].operator \in TextShowing =>
            /\ (is_some(ResolvedText(k)) /\ trim_is_empty(ResolvedText(k)[1]))
                  => After(k).texts = Before(k).texts
            /\ (/\ history[k].operator = "TJ"
                /\ Len(history[k].operands) >= 1
                /\ history[k].operands[1].kind = "Array"
                /\ \A i \in 1..Len(history[k].operands[1].val) :
                      /\ IsNumber(history[k].operands[1].val[i])
                      /\ history[k].operands[1].val[i].val < -100)
                  => After(k).texts = Before(k).texts
            /\ (/\ history[k].operator \in {"Tj", "'"}
                /\ history[k].operands \in {<<String(<<>>)>>, <<String(str_space)>>})
                  => After(k).texts = Before(k).texts

\* a text shown, then a TJ array of two adjustments below -100, which resolves to two
\* spaces
C13_Witness ==
    /\ NumOps = 2
    /\ history[1].operator = "Tj"
    /\ history[2].operator = "TJ"
    /\ history[2].operands = <<Array(<<Integer(-250), Real(-300)>>)>>
    /\ ResolvedText(2) = Some(<<32, 32>>)
    /\ Len(Before(2).texts) = 1
    /\ Len(ctx.texts) = 1

\* the best-effort decoding of a string: UTF-8; else UTF-16BE after FE FF where that is
\* well formed; else lossy UTF-8, which always yields a text
BestEffort(bytes) ==
    IF is_some(from_utf8(bytes)) THEN from_utf8(bytes)[1]
    ELSE IF /\ Len(bytes) >= 2 /\ bytes[1] = 254 /\ bytes[2] = 255
            /\ is_some(decode_utf16be(SubSeq(bytes, 3, Len(bytes))))
         THEN decode_utf16be(SubSeq(bytes, 3, Len(bytes)))[1]
         ELSE from_utf8_lossy(bytes)

\* the position of the string operand of Tj, ' and "
StringIndex(op) == IF op = "\"" THEN 3 ELSE 1

RECURSIVE JoinedBestEffort(_, _)
JoinedBestEffort(array, i) ==
    IF i > Len(array) THEN <<>>
    ELSE (IF array[i].kind = "String" THEN BestEffort(array[i].val) ELSE <<>>)
             \o JoinedBestEffort(array, i + 1)

\* C19: text is never dropped for encoding reasons alone.  For every byte sequence given
\* as the string operand of Tj, ' or ", decoding yields a text, and the operator emits a
\* record unless that text is empty or all whitespace; every string element of a TJ array
\* contributes its decoded text to the combined text.
C19_TextNeverDroppedForEncoding ==
    \A k \in 1..NumOps :
        /\ (/\ history[k].operator \in {"Tj", "'", "\""}
            /\ Len(history[k].operands) >= StringIndex(history[k].operator)
            /\ history[k].operands[StringIndex(history[k].operator)].kind = "String") =>
              /\ is_some(ResolvedText(k))
              /\ ~trim_is_empty(
                     BestEffort(history[k].operands[StringIndex(history[k].operator)].val))
                    => TextEmitted(k)
        /\ (/\ history[k].operator = "TJ"
            /\ Len(history[k].operands) >= 1
            /\ history[k].operands[1].kind = "Array"
            /\ \A i \in 1..Len(history[k].operands[1].val) :
                  history[k].operands[1].val[i].kind = "String") =>
              ResolvedText(k) = Some(JoinedBestEffort(history[k].operands[1].val, 1))

\* the least number of operands with which the operator performs its effect
Arity(op) ==
    CASE op \in {"cm", "c", "Tm"} -> 6
      [] op \in {"v", "y", "re", "k", "K"} -> 4
      [] op \in {"rg", "RG", "\""} -> 3
      [] op \in {"m", "l", "Tf", "Td", "TD"} -> 2
      [] OTHER -> 1

\* the operators of the dispatch table that take operands
OperandTaking ==
    {"cm", "w", "m", "l", "c", "v", "y", "re", "g", "G", "rg", "RG", "k", "K",
     "Tc", "Tw", "TL", "Ts", "Tf", "Tm", "Td", "TD", "Tj", "TJ", "'", "\""}

\* C15: an operator of the dispatch table that takes operands, dispatched with fewer
\* operands than its effect needs, leaves the whole context unchanged and appends
\* nothing to either output list.
C15_TooFewOperandsIsNoOp ==
    \A k \in 1..NumOps :
        (/\ history[k].operator \in OperandTaking
         /\ Len(history[k].operands) < Arity(history[k].operator))
            => After(k) = Before(k)

\* the operators that expect numeric operands only
NumericOperators ==
    {"m", "l", "w", "g", "G", "Td", "TD", "Tc", "Tw", "TL", "Ts",
     "c", "v", "y", "re", "cm", "rg", "RG", "k", "K", "Tm"}

\* the operands with 0.0 in place of each one that is neither an integer nor a real
ZeroFilled(ops) == [i \in 1..Len(ops) |-> IF IsNumber(ops[i]) THEN ops[i] ELSE Real(0)]

\* C16: for every operator that expects numeric operands, an operand that is present
\* but is neither an integer nor a real is taken as 0.0, and the operator performs its
\* effect with that value; the rule is the same for all these operators.
C16_NonNumericOperandIsZero ==
    \A k \in 1..NumOps :
        (/\ history[k].operator \in NumericOperators
         /\ Len(history[k].operands) >= Arity(history[k].operator))
            => After(k) = process_operator(Before(k), history[k].operator,
                                           ZeroFilled(history[k].operands))

\* C17: the dispatcher is total: in every reachable context, for every operator name
\* and operand list, process_operator completes without panic; every read of the top of
\* the state stack finds an entry and no operand is indexed past the end of the list.
C17_DispatcherIsTotal ==
    \A k \in 1..NumOps :
        /\ ~panics(Before(k), history[k].operator, history[k].operands)
        /\ reads_top_state(Before(k), history[k].operator, history[k].operands)
              => Depth(Before(k)) >= 1
        /\ \A i \in indexed_operands(history[k].operator, history[k].operands) :
              i < Len(history[k].operands)

\* an excess Q, then TJ with no operand at all
C17_Witness ==
    /\ NumOps = 2
    /\ history[1].operator = "Q"
    /\ history[2].operator = "TJ"
    /\ history[2].operands = <<>>
    /\ ctx = Before(1)

\* the names of the dispatch table
DispatchTable ==
    {"q", "Q", "cm", "w", "m", "l", "c", "v", "y", "h", "re",
     "S", "s", "f", "F", "f*", "B", "B*", "b", "b*", "n",
     "g", "G", "rg", "RG", "k", "K", "Tc", "Tw", "TL", "Ts", "Tf",
     "BT", "Tm", "Td", "TD", "T*", "Tj", "TJ", "'", "\""}

\* C18: an operator whose name is not in the dispatch table (ET, W, gs, Do, sc) is
\* ignored, whatever its operands: the state stack, the in-progress path, path_start,
\* current_point and both output lists are as before.
C18_UnknownOperatorIgnored ==
    \A k \in 1..NumOps :
        history[k].operator \notin DispatchTable =>
            /\ After(k).state_stack = Before(k).state_stack
            /\ After(k).current_path = Before(k).current_path
            /\ After(k).path_start = Before(k).path_start
            /\ After(k).current_point = Before(k).current_point
            /\ After(k).paths = Before(k).paths
            /\ After(k).texts = Before(k).texts

\* a rectangle in the buffer, then gs with an operand
C18_Witness ==
    /\ NumOps = 2
    /\ history[1].operator = "re"
    /\ Len(Before(2).current_path) = 5
    /\ Before(2).path_start # <<0, 0>>
    /\ history[2].operator = "gs"
    /\ history[2].operands # <<>>
    /\ ctx = Before(2)

\* C20: to_layer_objects returns |paths| + |texts| layers: the path layers first, in
\* emission order, then the text layers, in emission order; the k-th layer, counted
\* from 0, has z_index k, so every path layer lies below every text layer.
C20_LayersInEmissionOrder ==
    is_some(layers) =>
        /\ Len(layers[1]) = Len(ctx.paths) + Len(ctx.texts)
        /\ \A k \in 1..Len(layers[1]) : layers[1][k].z_index = k - 1
        /\ \A k \in 1..Len(ctx.paths) :
              /\ layers[1][k].layer_type = "Vector"
              /\ layers[1][k].path_data = Some([commands |-> ctx.paths[k].commands,
                                                fill_rule |-> None])
              /\ layers[1][k].bounds = ctx.paths[k].bounds
              /\ is_some(layers[1][k].fill_color) = is_some(ctx.paths[k].fill_color)
        /\ \A k \in 1..Len(ctx.texts) :
              /\ layers[1][Len(ctx.paths) + k].layer_type = "Text"
              /\ layers[1][Len(ctx.paths) + k].content = Some(ctx.texts[k].text)
        /\ \A i \in 1..Len(layers[1]) : \A j \in 1..Len(layers[1]) :
              (layers[1][i].layer_type = "Vector" /\ layers[1][j].layer_type = "Text")
                  => layers[1][i].z_index < layers[1][j].z_index

\* a text shown before the first path is painted, a stroked and a filled path, and
\* the layers made of them
C20_Witness ==
    /\ is_some(layers)
    /\ NumOps = 5
    /\ history[1].operator = "Tj"
    /\ Len(ctx.paths) = 2
    /\ ctx.paths[1].fill_color # ctx.paths[2].fill_color
    /\ Len(ctx.texts) = 1
    /\ Len(layers[1]) = 3

\* the context the call of a page holds at its loop position when it runs alone
Alone(pg) ==
    process_operations(ParseContext_new(pg.page_height),
                       SubSeq(pg.operations, 1, pg.next - 1), 1)

\* every page's context and returned lists are those of the page interpreted alone
EachPageAsAlone ==
    \A p \in DOMAIN pages :
        /\ pages[p].ctx = Alone(pages[p])
        /\ is_some(pages[p].returned) =>
               pages[p].returned[1] =
                   parse_page_content(pages[p].operations, pages[p].page_height)

\* a step of one page leaves the record of every other page as it was
StepWritesOwnPageOnly ==
    \A p \in DOMAIN pages :
        pages'[p] # pages[p] => \A q \in DOMAIN pages \ {p} : pages'[q] = pages[q]

\* C21: when two pages are interpreted concurrently, each with its own ParseContext
\* and with their operator steps interleaved in any order, each page's context and
\* output lists are those of the page interpreted alone, and no step of one
\* interpretation changes the state of the other.
C21_PagesDoNotInterfere == []EachPageAsAlone /\ [][StepWritesOwnPageOnly]_vars

\* both calls are inside their loops at once: the first holds an unpainted point in its
\* buffer, the second has emitted a text, has an empty buffer and is about to stroke
C21_Witness ==
    /\ Len(pages) = 2
    /\ pages[1].next = 2 /\ ~finished(pages[1])
    /\ pages[1].ctx.current_path # <<>>
    /\ pages[2].next = 2 /\ ~finished(pages[2])
    /\ pages[2].operations[2].operator = "S"
    /\ pages[2].ctx.current_path = <<>>
    /\ pages[2].ctx.texts # <<>>

\* the operators dispatched are the stream's first ones in stream order, the context is
\* the result of exactly those, and the call returns only after all of them
DispatchedInStreamOrder ==
    \A p \in DOMAIN pages :
        LET pg == pages[p]
        IN  /\ pg.next \in 1..(Len(pg.operations) + 1)
            /\ pg.dispatched = SubSeq(pg.operations, 1, pg.next - 1)
            /\ pg.ctx = process_operations(ParseContext_new(pg.page_height), pg.dispatched, 1)
            /\ is_some(pg.returned) =>
                   /\ pg.dispatched = pg.operations
                   /\ pg.returned[1] = <<pg.ctx.texts, pg.ctx.paths>>

AllReturned == \A p \in DOMAIN pages : is_some(pages[p].returned)

\* C22: interpreting a finite stream of n operators is a single pass: each operator is
\* dispatched exactly once, in stream order, on the context the operators before it
\* left, and the run ends after n dispatches by returning the two output lists.
C22_SinglePassTerminates == []DispatchedInStreamOrder /\ <>AllReturned

\* a stream of three operators has been walked and the lists are returned, a path in them
C22_Witness ==
    /\ Len(pages) = 1
    /\ Len(pages[1].operations) = 3
    /\ pages[1].dispatched = pages[1].operations
    /\ is_some(pages[1].returned)
    /\ pages[1].returned[1][2] # <<>>

\* C23: a path emitted by s, b or b* holds the commands of the buffer the operator was
\* dispatched on and one ClosePath after them; a path emitted by S, B, B*, f, F or f*
\* holds the commands of the buffer and no other.
C23_ClosedVariantsAppendClosePath ==
    \A k \in 1..NumOps :
        (history[k].operator \in EmittingPaint /\ Emitted(k)) =>
            LET out == LastPath(After(k)).commands
                buf == Before(k).current_path
            IN  /\ \A i \in 1..Len(buf) : out[i].type = buf[i].type
                /\ IF history[k].operator \in ClosingPaint
                   THEN Len(out) = Len(buf) + 1 /\ out[Len(out)] = ClosePath
                   ELSE Len(out) = Len(buf)

\* a point moved to and the path closed and stroked by s: two commands come out of one
C23_Witness ==
    \E k \in 1..NumOps :
        /\ history[k].operator = "s"
        /\ Len(Before(k).current_path) = 1
        /\ Before(k).current_path[1].type = "MoveTo"
        /\ Emitted(k)
        /\ Len(LastPath(After(k)).commands) = 2

\* the subpath start and the current point as the path operators 1..j of a stream of
\* well-formed operators leave them
RECURSIVE StartLeft(_)
StartLeft(j) ==
    IF j = 0 THEN <<0, 0>>
    ELSE IF history[j].operator \in {"m", "re"}
         THEN <<history[j].operands[1].val, history[j].operands[2].val>>
         ELSE StartLeft(j - 1)

RECURSIVE PointLeft(_)
PointLeft(j) ==
    IF j = 0 THEN <<0, 0>>
    ELSE CASE history[j].operator \in {"m", "l", "re"} ->
                  <<history[j].operands[1].val, history[j].operands[2].val>>
           [] history[j].operator = "c" ->
                  <<history[j].operands[5].val, history[j].operands[6].val>>
           [] history[j].operator \in {"v", "y"} ->
                  <<history[j].operands[3].val, history[j].operands[4].val>>
           [] history[j].operator = "h" -> StartLeft(j - 1)
           [] OTHER -> PointLeft(j - 1)

\* C24: `v x2 y2 x y` appends one CurveTo from the current point as the last of m, l,
\* c, v, y, h, re left it, with that point as first control point, (x2, y2) as second
\* and (x, y) as endpoint; the current point becomes (x, y), path_start stays.
C24_VStartsAtCurrentPoint ==
    \A k \in 1..NumOps :
        (/\ history[k].operator = "v"
         /\ Len(history[k].operands) = 4
         /\ AllNumeric(history[k].operands, 4)) =>
            LET ops == history[k].operands
            IN  /\ Before(k).current_point = PointLeft(k - 1)
                /\ After(k).current_path =
                       Append(Before(k).current_path,
                              CurveTo(PointLeft(k - 1)[1], PointLeft(k - 1)[2],
                                      ops[1].val, ops[2].val, ops[3].val, ops[4].val))
                /\ After(k).current_point = <<ops[3].val, ops[4].val>>
                /\ After(k).path_start = Before(k).path_start

\* v after a line to (3, 1) that followed a move: the curve starts at (3, 1)
C24_Witness ==
    /\ NumOps = 3
    /\ history[1].operator = "m"
    /\ history[2].operator = "l"
    /\ history[3].operator = "v"
    /\ ctx.current_path[3] = CurveTo(3, 1, 2, 3, 4, 2)
    /\ ctx.current_point = <<4, 2>>

\* the x and the y coordinates of a command, control points included
XsOf(cmd) ==
    CASE cmd.type \in {"MoveTo", "LineTo"} -> <<cmd.x>>
      [] cmd.type = "CurveTo" -> <<cmd.x1, cmd.x2, cmd.x>>
      [] OTHER -> <<>>

Range(seq) == {seq[i] : i \in DOMAIN seq}

EmittedXs(path) == UNION {Range(XsOf(path.commands[i])) : i \in DOMAIN path.commands}

EmittedYs(path) == UNION {Range(YsOf(path.commands[i])) : i \in DOMAIN path.commands}

IsMinimum(v, S) == v \in S /\ \A w \in S : v <= w

Maximum(S) == CHOOSE v \in S : \A w \in S : w <= v

Minimum(S) == CHOOSE v \in S : \A w \in S : v <= w

\* C25: for every emitted path, bounds.x and bounds.y are the least emitted x and y,
\* control points included, and every emitted coordinate lies within
\* [bounds.x, bounds.x + bounds.width] and [bounds.y, bounds.y + bounds.height].
C25_BoundsAreMinMax ==
    \A i \in DOMAIN ctx.paths :
        LET path == ctx.paths[i]
        IN  /\ IsMinimum(path.bounds.x, EmittedXs(path))
            /\ IsMinimum(path.bounds.y, EmittedYs(path))
            /\ \A x \in EmittedXs(path) :
                  path.bounds.x <= x /\ x <= path.bounds.x + path.bounds.width
            /\ \A y \in EmittedYs(path) :
                  path.bounds.y <= y /\ y <= path.bounds.y + path.bounds.height

\* the same for the emitted paths that hold a coordinate: every path but the one of
\* ClosePath commands alone, whose box starts at the f32::MAX the accumulators start at
BoundsOfPathsWithCoordinates ==
    \A i \in DOMAIN ctx.paths :
        LET path == ctx.paths[i]
        IN  EmittedXs(path) # {} =>
                /\ IsMinimum(path.bounds.x, EmittedXs(path))
                /\ IsMinimum(path.bounds.y, EmittedYs(path))
                /\ \A x \in EmittedXs(path) :
                      path.bounds.x <= x /\ x <= path.bounds.x + path.bounds.width
                /\ \A y \in EmittedYs(path) :
                      path.bounds.y <= y /\ y <= path.bounds.y + path.bounds.height

\* the extent of a set of coordinates floored at 1; 1 when there is no coordinate
FlooredExtent(S) ==
    IF S = {} THEN 1 ELSE f32_max(Maximum(S) - Minimum(S), 1)

\* C26: every emitted path has bounds.width >= 1 and bounds.height >= 1: the width is
\* max(max_x - min_x, 1) and the height max(max_y - min_y, 1) over its coordinates.
C26_BoundsFlooredAtOne ==
    \A i \in DOMAIN ctx.paths :
        LET path == ctx.paths[i]
        IN  /\ path.bounds.width >= 1
            /\ path.bounds.height >= 1
            /\ path.bounds.width = FlooredExtent(EmittedXs(path))
            /\ path.bounds.height = FlooredExtent(EmittedYs(path))

\* a single point painted: its extent is 0 in both dimensions and its box is 1 by 1
C26_Witness ==
    \E i \in DOMAIN ctx.paths :
        /\ Len(ctx.paths[i].commands) = 1
        /\ ctx.paths[i].commands[1].type = "MoveTo"
        /\ Maximum(EmittedXs(ctx.paths[i])) = Minimum(EmittedXs(ctx.paths[i]))
        /\ ctx.paths[i].bounds.width = 1
        /\ ctx.paths[i].bounds.height = 1

\* C27: BT sets the text matrix and the line matrix of the top state to identity and
\* changes nothing else: the other fields of the top state (CTM, colours, line width,
\* font name and size, char and word spacing, text rise, leading), the states below
\* it, the path buffer, the current point and the output lists stay as they were.
C27_BTResetsTextMatricesOnly ==
    \A k \in 1..NumOps :
        history[k].operator = "BT" =>
            /\ state(After(k)).text_matrix = identity
            /\ state(After(k)).line_matrix = identity
            /\ After(k) =
                   [Before(k) EXCEPT !.state_stack[Depth(Before(k))] =
                       [state(Before(k)) EXCEPT !.text_matrix = identity,
                                                !.line_matrix = identity]]

\* BT on a state whose text and line matrix the operator before had set
C27_Witness ==
    \E k \in 1..NumOps :
        /\ history[k].operator = "BT"
        /\ state(Before(k)).text_matrix # identity
        /\ state(Before(k)).line_matrix # identity
        /\ state(After(k)).text_matrix = identity

\* the matrix m with its translation moved by (tx, ty)
Shifted(m, tx, ty) == TransformMatrix(m.a, m.b, m.c, m.d, m.e + tx, m.f + ty)

\* C28: `Td tx ty` sets line_matrix to line_matrix.multiply(translate(tx, ty)), which is
\* the line matrix with tx added to e and ty to f, and text_matrix to the same; right
\* after `Tm a b c d e f` both are (a, b, c, d, e + tx, f + ty); nothing else changes.
C28_TdAddsToTranslation ==
    \A k \in 1..NumOps :
        (history[k].operator = "Td" /\ AllNumeric(history[k].operands, 2)) =>
            LET tx == history[k].operands[1].val
                ty == history[k].operands[2].val
                lm == state(Before(k)).line_matrix
            IN  /\ state(After(k)).line_matrix = multiply(lm, translate(tx, ty))
                /\ state(After(k)).line_matrix = Shifted(lm, tx, ty)
                /\ state(After(k)).text_matrix = state(After(k)).line_matrix
                /\ After(k) =
                       [Before(k) EXCEPT !.state_stack[Depth(Before(k))] =
                           [state(Before(k)) EXCEPT !.line_matrix = Shifted(lm, tx, ty),
                                                    !.text_matrix = Shifted(lm, tx, ty)]]
                /\ (/\ k > 1
                    /\ history[k - 1].operator = "Tm"
                    /\ AllNumeric(history[k - 1].operands, 6)) =>
                       state(After(k)).line_matrix =
                           Shifted(parse_matrix(history[k - 1].operands), tx, ty)

\* Td 2 5 right after Tm 2 1 0 3 3 4: both matrices are (2, 1, 0, 3, 5, 9)
C28_Witness ==
    /\ NumOps = 2
    /\ history[1].operator = "Tm"
    /\ history[2].operator = "Td"
    /\ state(ctx).line_matrix = TransformMatrix(2, 1, 0, 3, 5, 9)
    /\ state(ctx).text_matrix = TransformMatrix(2, 1, 0, 3, 5, 9)

\* C29: T* leaves the context as `Td 0 (-leading)` dispatched on the same context
\* would, leading being that of the top state, which TL sets to its operand and
\* TD tx ty to -ty; T* does not change leading.
C29_TstarIsTdByLeading ==
    \A k \in 1..NumOps :
        /\ history[k].operator = "T*" =>
              /\ After(k) = process_operator(Before(k), "Td",
                                <<Real(0), Real(-state(Before(k)).leading)>>)
              /\ state(After(k)).leading = state(Before(k)).leading
        /\ (history[k].operator = "TD" /\ AllNumeric(history[k].operands, 2)) =>
              state(After(k)).leading = -history[k].operands[2].val
        /\ (history[k].operator = "TL" /\ AllNumeric(history[k].operands, 1)) =>
              state(After(k)).leading = history[k].operands[1].val

\* T* after TD 2 5: the leading is -5 and the line moves from (2, 5) to (2, 10)
C29_Witness ==
    /\ NumOps = 2
    /\ history[1].operator = "TD"
    /\ history[2].operator = "T*"
    /\ state(Before(2)).leading = -5
    /\ state(ctx).line_matrix = TransformMatrix(1, 0, 0, 1, 2, 10)

\* C30: for every operand list, `'` leaves the context and the output lists as `T*`
\* and then `Tj` with the same operands would.
C30_QuoteIsTstarThenTj ==
    \A k \in 1..NumOps :
        history[k].operator = "'" =>
            After(k) = process_operator(process_operator(Before(k), "T*", <<>>),
                                        "Tj", history[k].operands)

\* `'` with a string after TL 2: the line has moved down by 2 and the text is emitted
\* at the new line
C30_Witness ==
    /\ NumOps = 2
    /\ history[1].operator = "TL"
    /\ history[2].operator = "'"
    /\ state(ctx).line_matrix = TransformMatrix(1, 0, 0, 1, 0, -2)
    /\ Len(ctx.texts) = 1
    /\ ctx.texts[1].text = str_Hi

\* C31: `" aw ac text` with three operands, aw and ac numbers, sets word spacing to aw
\* and character spacing to ac and leaves the context and the output lists as
\* `Tw aw; Tc ac; ' text` dispatched on the same context would.
C31_DquoteIsTwTcQuote ==
    \A k \in 1..NumOps :
        (/\ history[k].operator = "\""
         /\ Len(history[k].operands) = 3
         /\ AllNumeric(history[k].operands, 2)) =>
            LET ops == history[k].operands
            IN  /\ state(After(k)).word_spacing = ops[1].val
                /\ state(After(k)).char_spacing = ops[2].val
                /\ After(k) =
                       process_operator(
                           process_operator(
                               process_operator(Before(k), "Tw", <<ops[1]>>),
                               "Tc", <<ops[2]>>),
                           "'", <<ops[3]>>)

\* `" 1 2 (Hi)` after TL 2: the spacings are 1 and 2, the line has moved down by 2 and
\* the text is emitted
C31_Witness ==
    /\ NumOps = 2
    /\ history[1].operator = "TL"
    /\ history[2].operator = "\""
    /\ state(ctx).word_spacing = 1
    /\ state(ctx).char_spacing = 2
    /\ state(ctx).line_matrix = TransformMatrix(1, 0, 0, 1, 0, -2)
    /\ Len(ctx.texts) = 1
    /\ ctx.texts[1].text = str_Hi

\* the stream BT; Tf F s; Td tx ty; Tj t
IsPlainTextObject ==
    /\ NumOps = 4
    /\ history[1].operator = "BT"
    /\ history[2].operator = "Tf"
    /\ history[3].operator = "Td"
    /\ history[4].operator = "Tj"

\* C32: an emitted text is positioned from combined = CTM.multiply(text_matrix) of the
\* state it is shown in: x = combined.e and y = page_height - (combined.f + text_rise)
\* - 0.8 * effective_font_size (record numbers in thousandths); after
\* `BT; Tf F s; Td tx ty; Tj t` under the identity CTM, x = tx and y = H - ty - 0.8*s.
C32_TextPosition ==
    /\ \A k \in 1..NumOps :
          TextEmitted(k) =>
              LET shown    == LastText(After(k))
                  combined == multiply(state(After(k)).ctm, state(After(k)).text_matrix)
              IN  /\ shown.transform = combined
                  /\ shown.x = 1000 * combined.e
                  /\ shown.y = 1000 * After(k).page_height
                                   - 1000 * (combined.f + state(After(k)).text_rise)
                                   - (8 * shown.font_size) \div 10
                  /\ (combined.b = 0 /\ combined.d = 1) =>
                         shown.font_size = 1000 * state(After(k)).font_size
    /\ (IsPlainTextObject /\ TextEmitted(4)) =>
          /\ LastText(ctx).x = 1000 * history[3].operands[1].val
          /\ LastText(ctx).y = 1000 * ctx.page_height - 1000 * history[3].operands[2].val
                                   - 800 * history[2].operands[2].val

\* BT; Tf F1 10; Td 2 5; Tj (Hi) on a page of height 100: x = 2, y = 100 - 5 - 8 = 87
C32_Witness ==
    /\ IsPlainTextObject
    /\ ctx.page_height = 100
    /\ Len(ctx.texts) = 1
    /\ ctx.texts[1].x = 2000
    /\ ctx.texts[1].y = 87000

\* mat.product holds self.multiply(&other)
ProductComputed == mat.pc \in {"multiplied", "product_applied", "self_applied", "done"}

\* C33 as stated: the translation of self.multiply(other) is self's linear part applied to
\* other's translation plus self's translation: e = self.a*other.e + self.c*other.f + self.e
\* and f = self.b*other.e + self.d*other.f + self.f.
C33_Original_TranslationBySelf ==
    ProductComputed =>
        /\ mat.product[1].e = mat.self.a * mat.other.e + mat.self.c * mat.other.f + mat.self.e
        /\ mat.product[1].f = mat.self.b * mat.other.e + mat.self.d * mat.other.f + mat.self.f

\* C33: the translation of self.multiply(other) is self's translation taken through other:
\* other's linear part applied to it plus other's translation, which is where other sends
\* the point self sends the origin to.
C33_TranslationThroughOther ==
    ProductComputed =>
        /\ mat.product[1].e = mat.self.e * mat.other.a + mat.self.f * mat.other.c + mat.other.e
        /\ mat.product[1].f = mat.self.e * mat.other.b + mat.self.f * mat.other.d + mat.other.f
        /\ <<mat.product[1].e, mat.product[1].f>> =
              transform_point(mat.other, transform_point(mat.self, 0, 0)[1],
                              transform_point(mat.self, 0, 0)[2])

\* a product whose translation differs between the two readings: self moves, other scales
C33_Witness ==
    /\ ProductComputed
    /\ mat.self = TransformMatrix(1, 0, 0, 1, 5, -2)
    /\ mat.other = TransformMatrix(2, 0, 0, 3, 0, 0)
    /\ mat.product[1].e = 10
    /\ mat.product[1].f = -6

\* C34: in every reachable state, every GraphicsState on the stack has its text matrix
\* equal to its line matrix (no operator moves the one without the other).
C34_TextMatrixIsLineMatrix ==
    \A i \in 1..Depth(ctx) : ctx.state_stack[i].text_matrix = ctx.state_stack[i].line_matrix

\* a TD moved the line on top of a saved state: both matrices of the top state moved
C34_Witness ==
    /\ NumOps = 2
    /\ history[2].operator = "TD"
    /\ Depth(ctx) = 2
    /\ state(ctx).line_matrix # identity
    /\ state(ctx).text_matrix = state(ctx).line_matrix
    /\ ctx.state_stack[1].line_matrix = identity

\* C35: Tj and TJ leave the state stack as it is (the text matrix is not advanced by the
\* width of the shown text), so two consecutive Tj that both emit give two records with
\* the same x and the same y.
C35_ShowDoesNotAdvance ==
    /\ \A k \in 1..NumOps :
          history[k].operator \in {"Tj", "TJ"} =>
              After(k).state_stack = Before(k).state_stack
    /\ \A k \in 1..(NumOps - 1) :
          (/\ history[k].operator = "Tj" /\ TextEmitted(k)
           /\ history[k + 1].operator = "Tj" /\ TextEmitted(k + 1)) =>
              /\ Len(After(k + 1).texts) = Len(Before(k).texts) + 2
              /\ LastText(After(k + 1)).x = LastText(After(k)).x
              /\ LastText(After(k + 1)).y = LastText(After(k)).y

\* two different strings shown one after the other away from the origin
C35_Witness ==
    /\ NumOps = 4
    /\ history[2].operator = "Td"
    /\ history[3].operator = "Tj" /\ history[4].operator = "Tj"
    /\ history[3].operands # history[4].operands
    /\ Len(ctx.texts) = 2
    /\ ctx.texts[1].text # ctx.texts[2].text
    /\ ctx.texts[1].x = ctx.texts[2].x
    /\ ctx.texts[1].x # 0
    /\ ctx.texts[1].y = ctx.texts[2].y

\* C36: right after any paint operator (S, s, f, F, f*, B, B*, b, b*, n) the path
\* buffer is empty, whether or not a path was emitted.
C36_PaintLeavesBufferEmpty ==
    \A k \in 1..NumOps :
        history[k].operator \in PaintOperators => After(k).current_path = <<>>

\* a buffer that held commands was painted by B*: one path emitted, nothing left
C36_Witness ==
    /\ NumOps = 2
    /\ history[2].operator = "B*"
    /\ Before(2).current_path # <<>>
    /\ ctx.current_path = <<>>
    /\ Len(ctx.paths) = 1

\* list `before` is the beginning of list `after`
IsPrefix(before, after) ==
    /\ Len(before) <= Len(after)
    /\ SubSeq(after, 1, Len(before)) = before

\* C37: the output lists only grow at the end: each operator appends at most one record
\* in all, a path only for S, s, f, F, f*, B, B*, b, b* and a text only for Tj, TJ, ', ";
\* the records already there stay as they are and where they are.
C37_OutputAppendOnly ==
    \A k \in 1..NumOps :
        /\ IsPrefix(Before(k).paths, After(k).paths)
        /\ IsPrefix(Before(k).texts, After(k).texts)
        /\ (Len(After(k).paths) - Len(Before(k).paths))
               + (Len(After(k).texts) - Len(Before(k).texts)) <= 1
        /\ Before(k).paths # After(k).paths => history[k].operator \in EmittingPaint
        /\ Before(k).texts # After(k).texts => history[k].operator \in TextShowing

\* a second, different text appended behind the first
C37_Witness ==
    /\ NumOps = 2
    /\ Len(Before(2).texts) = 1
    /\ Len(ctx.texts) = 2
    /\ ctx.texts[1] = Before(2).texts[1]
    /\ ctx.texts[2] # ctx.texts[1]
    /\ ctx.paths = <<>>

\* a buffer command with every coordinate taken through the top CTM of context c and the
\* page flip
ThroughCtm(cmd, c) ==
    CASE cmd.type = "MoveTo" -> MoveTo(ToOutput(c, cmd.x, cmd.y)[1], ToOutput(c, cmd.x, cmd.y)[2])
      [] cmd.type = "LineTo" -> LineTo(ToOutput(c, cmd.x, cmd.y)[1], ToOutput(c, cmd.x, cmd.y)[2])
      [] cmd.type = "CurveTo" ->
            CurveTo(ToOutput(c, cmd.x1, cmd.y1)[1], ToOutput(c, cmd.x1, cmd.y1)[2],
                    ToOutput(c, cmd.x2, cmd.y2)[1], ToOutput(c, cmd.x2, cmd.y2)[2],
                    ToOutput(c, cmd.x, cmd.y)[1], ToOutput(c, cmd.x, cmd.y)[2])
      [] OTHER -> ClosePath

\* operators k .. k+4 are q; cm; re; Q; f
IsSavedRectangle(k) ==
    /\ history[k].operator = "q"
    /\ history[k + 1].operator = "cm"
    /\ history[k + 2].operator = "re"
    /\ history[k + 3].operator = "Q"
    /\ history[k + 4].operator = "f"

\* C38: the coordinates of an emitted path are those of the buffer taken through the CTM
\* on top of the stack when it is painted, not the CTM in force when each command was
\* added; q and Q leave the buffer as it is; so in `q; cm M; re x y w h; Q; f` the
\* rectangle comes out under the CTM from before q, which is its transform field.
C38_PathTransformedAtPaintTime ==
    /\ \A k \in 1..NumOps :
          Emitted(k) =>
              /\ LastPath(After(k)).transform = state(Before(k)).ctm
              /\ Len(LastPath(After(k)).commands) = Len(PaintedBuffer(k))
              /\ \A i \in 1..Len(PaintedBuffer(k)) :
                    LastPath(After(k)).commands[i] = ThroughCtm(PaintedBuffer(k)[i], Before(k))
    /\ \A k \in 1..NumOps :
          history[k].operator \in {"q", "Q"} => After(k).current_path = Before(k).current_path
    /\ \A k \in 1..(NumOps - 4) :
          (IsSavedRectangle(k) /\ Emitted(k + 4)) =>
              /\ LastPath(After(k + 4)).transform = state(Before(k)).ctm
              /\ \A i \in 1..Len(After(k + 2).current_path) :
                    LastPath(After(k + 4)).commands[i] =
                        ThroughCtm(After(k + 2).current_path[i], Before(k))

\* q; cm 2 0 0 2 0 0; re 1 2 3 4; Q; f on a page of height 100: the rectangle is emitted
\* unscaled, with the identity as its transform
C38_Witness ==
    /\ NumOps = 5
    /\ IsSavedRectangle(1)
    /\ state(Before(3)).ctm = scale(2, 2)
    /\ ctx.page_height = 100
    /\ Len(ctx.paths) = 1
    /\ ctx.paths[1].transform = identity
    /\ ctx.paths[1].commands[1] = MoveTo(1, 98)
    /\ ctx.paths[1].commands[3] = LineTo(4, 94)

\* MoveTo, LineTo and CurveTo carry coordinates, ClosePath carries none
HasCoordinate(path) ==
    \E j \in DOMAIN path.commands : path.commands[j].type \in {"MoveTo", "LineTo", "CurveTo"}

\* C39: every emitted path holds at least one command with coordinates (MoveTo, LineTo or
\* CurveTo), so the origin of its box comes from a transformed coordinate and never from
\* the start values of the min/max accumulators.
C39_EmittedPathHasCoordinate ==
    \A i \in DOMAIN ctx.paths :
        /\ HasCoordinate(ctx.paths[i])
        /\ ctx.paths[i].bounds.x # F32_MAX
        /\ ctx.paths[i].bounds.y # F32_MAX
====
